---------------------------- MODULE Spec2Model ----------------------------
(***************************************************************************)
(* A model of crypto-tracer's event pipeline: the pre-allocated event      *)
(* buffer pool (event_buffer.c), the monitor command's driver loop         *)
(* (main.c, execute_monitor_command), the per-event callback (main.c,      *)
(* event_callback), the probes' ring buffers (src/ebpf/*.bpf.c) and the    *)
(* snapshot inventory loop (main.c, execute_snapshot_command).             *)
(***************************************************************************)
EXTENDS Integers, Sequences, FiniteSets, TLC

(***************************************************************************)
(* Bounds of the model.                                                    *)
(***************************************************************************)
\* Largest capacity a pool is created with.
MaxCapacity == 3
\* Number of acquire/release calls made on one pool.
MaxCalls == 7
\* Address calloc() gives the storage array, in units of one record.
EventsBase == 2
\* size_t arithmetic is done modulo this power of two (the width is 64 in
\* the build; TLC's integers stop at 2^31).
SizeModulus == 1073741824

\* Number of records the probes submit in one run of the monitor command.
MaxSubmit == 2
\* The same, in the runs checked for what eventually happens.
MaxFairSubmit == 1
\* Number of records one ring buffer holds before a reserve fails.
RingCapacity == 2
\* Largest --duration the monitor command is run with, in seconds.
MaxDuration == 1
\* Number of polls of one run that a signal interrupts.
MaxInterrupts == 1
\* The wall clock stops advancing here.
MaxTime == MaxDuration + 2
\* Number of processes the snapshot command finds at most.
MaxPids == 3
\* Number of crypto libraries, and of crypto files, one process has at most.
MaxFound == 1
\* Seconds the scan of one process takes at most.
MaxScanSeconds == 3
\* Number of write_event calls made on one formatter.
MaxWrites == 2
\* Number of explicit finalize calls made on one formatter.
MaxFinalize == 2

\* The longest path, in separators and names, that is redacted.
MaxPathLen == 4
\* Number of filter_set_add calls made on one filter set.
MaxFilters == 2
\* Largest pid of an event or of a pid filter.
MaxFilterPid == 2
\* The longest library path and the longest file path, in tokens, given to
\* the acceptance test.
MaxLibPathLen == 5
MaxFilePathLen == 4
\* Records the probes submit while the consumer does not run: one more than
\* a ring holds.
MaxRingSubmit == RingCapacity + 1
\* The longest string given to json_escape_string.
MaxEscapeLen == 3

(***************************************************************************)
(* Program constants.                                                      *)
(***************************************************************************)
NULL == 0
DEFAULT_POOL_CAPACITY == 1000
EXIT_SUCCESS == 0
EXIT_GENERAL_ERROR == 1
EXIT_BPF_ERROR == 5
EINTR == 4
\* Records one poll hands to the callback at most.
MAX_BATCH_SIZE == 100
\* Seconds a drain lasts at most.
DRAIN_SECONDS == 1
\* Seconds after which the snapshot command stops scanning.
SNAPSHOT_TIMEOUT == 5

VARIABLES
    pool,       \* event_buffer_pool_t: capacity, in_use_count, free_list, events
    pool_ret,   \* what the last acquire returned
    pool_warn,  \* the warning the last call printed on stderr, or "none"
    pool_call,  \* the last call made on the pool: [op, arg]
    pool_hist,  \* the outcomes of the calls made so far, in order
    held,       \* the records the caller acquired and has not released
    pc,                 \* where execute_monitor_command is
    shutdown_requested, \* the flag the signal handler sets
    now,                \* what time(NULL) returns, in seconds
    duration,           \* args->duration (0: unlimited)
    start_time,         \* start_time of execute_monitor_command
    shutdown_start,     \* shutdown_start of the drain block
    ret,                \* ret of execute_monitor_command
    mgr,                \* the eBPF manager: programs loaded, programs attached, calls made
    rings,              \* the `events` ring buffer of each probe program
    quota,              \* how many records the probes submit in this run
    submitted,          \* how many records the probes have submitted so far
    emitted,            \* the records written to the output sink, in order
    batch_log,          \* the stages each record of the last poll went through
    loop_ctx,           \* event_loop_ctx_t: events_processed, events_filtered
    interrupts,         \* how many polls returned -EINTR so far
    gap,                \* the shutdown flag since the last unit of work: tested or not
    path,               \* how the run left its main line: the path it ends by
    snap,               \* execute_snapshot_command: its position, locals and summary
    fmt,                \* the output formatter, its sink's owner and the calls made on it
    sink,               \* what has been written to the formatter's sink, token by token
    calc,               \* a call of one of the program's pure functions: inputs, result
    prof                \* execute_profile_command: its position, locals and environment

poolVars == <<pool, pool_ret, pool_warn, pool_call, pool_hist, held>>

snapVars == <<snap>>

auxVars == <<fmt, sink, calc, prof>>

monVars == <<pc, shutdown_requested, now, duration, start_time, shutdown_start,
             ret, mgr, rings, quota, submitted, emitted, batch_log, loop_ctx,
             interrupts, gap, path>>

vars == <<pool, pool_ret, pool_warn, pool_call, pool_hist, held,
          pc, shutdown_requested, now, duration, start_time, shutdown_start,
          ret, mgr, rings, quota, submitted, emitted, batch_log, loop_ctx,
          interrupts, gap, path, snap, fmt, sink, calc, prof>>

(***************************************************************************)
(* The event buffer pool.  A pointer is an address in units of one record: *)
(* the storage array holds the addresses EventsBase .. EventsBase +        *)
(* capacity - 1, NULL is 0, every other address is foreign to the pool.    *)
(* The owned string fields of a record are not part of the state.          *)
(***************************************************************************)
SizeInc(n) == (n + 1) % SizeModulus
SizeDec(n) == (n - 1) % SizeModulus

PoolRecords(p) == p.events_base .. (p.events_base + p.capacity - 1)

\* The pointers a caller may pass: NULL, every record of the storage array,
\* the addresses just below it, one past its end and beyond.
Pointers(p) == 0 .. (p.events_base + p.capacity + 1)

\* event_buffer_pool_create: the capacity defaults to 1000 when 0 is asked
\* for; the free list links every record, the last record first.
EventBufferPoolCreate(capacity) ==
    LET cap == IF capacity = 0 THEN DEFAULT_POOL_CAPACITY ELSE capacity
    IN  [ events_base  |-> EventsBase,
          capacity     |-> cap,
          in_use_count |-> 0,
          free_list    |-> EventsBase + cap - 1,
          events       |-> [e \in EventsBase .. (EventsBase + cap - 1) |->
                              [in_use |-> FALSE,
                               next   |-> IF e = EventsBase THEN NULL ELSE e - 1]] ]

\* A mutation of acquire: the count is incremented before the free list is
\* tested, so an acquire on an exhausted pool still counts.
PoolAcquireCountsFirst(p) ==
    IF p.free_list = NULL
    THEN [pool |-> [p EXCEPT !.in_use_count = SizeInc(@)],
          ret |-> NULL, warn |-> "exhausted"]
    ELSE LET event == p.free_list
         IN  [pool |-> [p EXCEPT !.free_list = p.events[event].next,
                                 !.events[event] = [in_use |-> TRUE, next |-> NULL],
                                 !.in_use_count = SizeInc(@)],
              ret |-> event, warn |-> "none"]

\* A mutation of acquire: the head of the free list is handed out but stays
\* the head.
PoolAcquireKeepsHead(p) ==
    IF p.free_list = NULL
    THEN [pool |-> p, ret |-> NULL, warn |-> "exhausted"]
    ELSE LET event == p.free_list
         IN  [pool |-> [p EXCEPT !.events[event] = [in_use |-> TRUE, next |-> @.next],
                                 !.in_use_count = SizeInc(@)],
              ret |-> event, warn |-> "none"]

\* event_buffer_pool_acquire: pop the head of the free list, or warn and
\* return NULL when the free list is empty.
PoolAcquire(p) ==
    IF p.free_list = NULL
    THEN [pool |-> p, ret |-> NULL, warn |-> "exhausted"]
    ELSE LET event == p.free_list
         IN  [pool |-> [p EXCEPT !.free_list = p.events[event].next,
                                 !.events[event] = [in_use |-> TRUE, next |-> NULL],
                                 !.in_use_count = SizeInc(@)],
              ret |-> event, warn |-> "none"]

\* A mutation of release: the in_use flag is not tested.
PoolReleaseNoFlagTest(p, event) ==
    IF event = NULL
    THEN [pool |-> p, warn |-> "none", done |-> FALSE]
    ELSE IF event < p.events_base \/ event >= p.events_base + p.capacity
    THEN [pool |-> p, warn |-> "not_from_pool", done |-> FALSE]
    ELSE [pool |-> [p EXCEPT !.events[event] = [in_use |-> FALSE, next |-> p.free_list],
                             !.free_list = event,
                             !.in_use_count = SizeDec(@)],
          warn |-> "none", done |-> TRUE]

\* A mutation of release: the record is cleared but never pushed back on
\* the free list.
PoolReleaseNoPush(p, event) ==
    IF event = NULL
    THEN [pool |-> p, warn |-> "none", done |-> FALSE]
    ELSE IF event < p.events_base \/ event >= p.events_base + p.capacity
    THEN [pool |-> p, warn |-> "not_from_pool", done |-> FALSE]
    ELSE IF ~p.events[event].in_use
    THEN [pool |-> p, warn |-> "not_in_use", done |-> FALSE]
    ELSE [pool |-> [p EXCEPT !.events[event] = [in_use |-> FALSE, next |-> NULL],
                             !.in_use_count = SizeDec(@)],
          warn |-> "none", done |-> TRUE]

\* event_buffer_pool_release: NULL is ignored; a pointer outside the storage
\* array and a record that is not in use are warned about and left alone;
\* otherwise the record is cleared and pushed on the free list.
PoolRelease(p, event) ==
    IF event = NULL
    THEN [pool |-> p, warn |-> "none", done |-> FALSE]
    ELSE IF event < p.events_base \/ event >= p.events_base + p.capacity
    THEN [pool |-> p, warn |-> "not_from_pool", done |-> FALSE]
    ELSE IF ~p.events[event].in_use
    THEN [pool |-> p, warn |-> "not_in_use", done |-> FALSE]
    ELSE [pool |-> [p EXCEPT !.events[event] = [in_use |-> FALSE, next |-> p.free_list],
                             !.free_list = event,
                             !.in_use_count = SizeDec(@)],
          warn |-> "none", done |-> TRUE]

\* One call of event_buffer_pool_acquire by the pool's user.
Acquire ==
    /\ Len(pool_hist) < MaxCalls
    /\ LET r == PoolAcquire(pool)
       IN  /\ pool' = r.pool
           /\ pool_ret' = r.ret
           /\ pool_warn' = r.warn
           /\ pool_call' = [op |-> "acquire", arg |-> NULL]
           /\ pool_hist' = Append(pool_hist, IF r.ret = NULL THEN "acq_null" ELSE "acq")
           /\ held' = IF r.ret = NULL THEN held ELSE held \cup {r.ret}
    /\ UNCHANGED <<monVars, snapVars, auxVars>>

\* One call of event_buffer_pool_release by the pool's user, with any pointer.
Release ==
    /\ Len(pool_hist) < MaxCalls
    /\ \E event \in Pointers(pool) :
         LET r == PoolRelease(pool, event)
         IN  /\ pool' = r.pool
             /\ pool_warn' = r.warn
             /\ pool_call' = [op |-> "release", arg |-> event]
             /\ pool_hist' = Append(pool_hist,
                    CASE r.done -> "rel"
                      [] r.warn = "not_from_pool" -> "rel_foreign"
                      [] r.warn = "not_in_use" -> "rel_double"
                      [] OTHER -> "rel_null")
             /\ held' = IF r.done THEN held \ {event} ELSE held
             /\ UNCHANGED pool_ret
    /\ UNCHANGED <<monVars, snapVars, auxVars>>

PoolInit ==
    \* the monitor command is not part of this specification: it has not started
    /\ pc = "start"
    /\ shutdown_requested = FALSE
    /\ now = 0
    /\ duration = 0
    /\ start_time = 0
    /\ shutdown_start = 0
    /\ ret = 0
    /\ mgr = [created |-> FALSE]
    /\ rings = << >>
    /\ quota = 0
    /\ submitted = 0
    /\ emitted = << >>
    /\ batch_log = << >>
    /\ loop_ctx = [events_processed |-> 0, events_filtered |-> 0]
    /\ interrupts = 0
    /\ gap = "first"
    /\ path = "none"
    \* the snapshot command is not part of this specification: it has not started
    /\ snap = [pc |-> "idle"]
    \* the formatter and the pure functions are not part of this specification
    /\ fmt = [pc |-> "idle"]
    /\ sink = << >>
    /\ prof = [pc |-> "idle"]
    /\ calc = [op |-> "idle"]
    /\ \E capacity \in 1 .. MaxCapacity : pool = EventBufferPoolCreate(capacity)
    /\ pool_ret = NULL
    /\ pool_warn = "none"
    /\ pool_call = [op |-> "create", arg |-> NULL]
    /\ pool_hist = << >>
    /\ held = {}

PoolNext == Acquire \/ Release

SpecPool == PoolInit /\ [][PoolNext]_vars

(***************************************************************************)
(* The monitor command: kernel probes, ring buffers, the eBPF manager, the *)
(* event callback and execute_monitor_command.                             *)
(***************************************************************************)

\* The probe programs; each one defines its own `events` ring buffer map.
Probes == {"file_open", "lib_load", "process_exec", "process_exit", "api_call"}

\* The order in which one poll visits the ring buffers.
RingOrder == <<"file_open", "lib_load", "process_exec", "process_exit", "api_call">>

\* The sets of probe programs the kernel accepts at load and at attach.
ProbeCases == {{}, {"process_exit"}, Probes}

\* The records a probe submits.  crypto: what the user-space test of the path
\* (classify_crypto_file, the library whitelist) answers for the decoded
\* record; match: what the user's filters answer for it.
SampleRecords ==
    { [kind |-> "file_open",    crypto |-> TRUE,  match |-> TRUE],
      [kind |-> "file_open",    crypto |-> FALSE, match |-> TRUE],
      [kind |-> "lib_load",     crypto |-> TRUE,  match |-> TRUE],
      [kind |-> "lib_load",     crypto |-> FALSE, match |-> TRUE],
      [kind |-> "process_exec", crypto |-> TRUE,  match |-> FALSE],
      [kind |-> "process_exit", crypto |-> TRUE,  match |-> TRUE],
      [kind |-> "api_call",     crypto |-> TRUE,  match |-> TRUE] }

Min(a, b) == IF a < b THEN a ELSE b

\* The loop's test of a poll result: negative and not a signal interruption.
PollFailedAnyNegative(r) == r < 0

PollFailed(r) == r < 0 /\ r # -EINTR

\* The duration test of the main loop.
DurationElapsed(d, t, start) == d > 0 /\ t - start >= d

\* The test of the drain loop: the drain goes on while this holds.
DrainOpenInclusive(t, start) == t - start <= DRAIN_SECONDS

DrainOpen(t, start) == t - start < DRAIN_SECONDS

\* ---- the eBPF manager ----
NoManager ==
    [created |-> FALSE, loaded |-> {}, attached |-> {}, load_calls |-> 0,
     cleanup_calls |-> 0, destroyed |-> FALSE, events_dropped |-> 0]

EbpfManagerCreate == [NoManager EXCEPT !.created = TRUE]

\* Loads the programs the kernel accepts; fails only when none loads.
EbpfManagerLoadPrograms(m, loadable) ==
    [mgr |-> [m EXCEPT !.loaded = loadable, !.load_calls = @ + 1],
     ret |-> IF loadable = {} THEN -1 ELSE 0]

\* Attaches the loaded programs the kernel accepts; fails only when none attaches.
EbpfManagerAttachPrograms(m, attachable) ==
    [mgr |-> [m EXCEPT !.attached = m.loaded \cap attachable],
     ret |-> IF m.loaded \cap attachable = {} THEN -1 ELSE 0]

\* Detaches and unloads every program.
EbpfManagerCleanup(m) ==
    [m EXCEPT !.attached = {}, !.loaded = {}, !.cleanup_calls = @ + 1]

EbpfManagerDestroy(m) == [m EXCEPT !.destroyed = TRUE]

\* ---- the event callback ----
\* output_formatter_write_event: fails on an event without a known type.
OutputFormatterWriteEvent(rec) == IF rec.kind \in Probes THEN 0 ELSE -1

\* event_callback with the acceptance test ahead of the enrichment.
EventCallbackAcceptFirst(rec) ==
    LET classified == rec.kind \in {"file_open", "lib_load"}
        s1 == (IF classified THEN <<"accept">> ELSE << >>)
        s2 == s1 \o <<"enrich">> \o (IF classified THEN <<"classify">> ELSE << >>)
    IN  IF classified /\ ~rec.crypto
        THEN [stages |-> s1, emit |-> FALSE, filtered |-> TRUE, ret |-> 0]
        ELSE IF ~rec.match
        THEN [stages |-> s2 \o <<"redact", "match">>,
              emit |-> FALSE, filtered |-> TRUE, ret |-> 0]
        ELSE [stages |-> s2 \o <<"redact", "match", "emit">>,
              emit |-> TRUE, filtered |-> FALSE, ret |-> 0]

\* event_callback on one decoded event: the stages it runs, in order, whether
\* the event is written to the sink, whether it is counted as filtered.
EventCallback(rec) ==
    LET classified == rec.kind \in {"file_open", "lib_load"}
        s1 == <<"enrich">> \o (IF classified THEN <<"classify", "accept">> ELSE << >>)
    IN  IF classified /\ ~rec.crypto
        THEN [stages |-> s1, emit |-> FALSE, filtered |-> TRUE, ret |-> 0]
        ELSE IF ~rec.match
        THEN [stages |-> s1 \o <<"redact", "match">>,
              emit |-> FALSE, filtered |-> TRUE, ret |-> 0]
        ELSE IF OutputFormatterWriteEvent(rec) # 0
        THEN [stages |-> s1 \o <<"redact", "match", "emit">>,
              emit |-> FALSE, filtered |-> FALSE, ret |-> -1]
        ELSE [stages |-> s1 \o <<"redact", "match", "emit">>,
              emit |-> TRUE, filtered |-> FALSE, ret |-> 0]

\* ---- one poll of the ring buffers ----
\* The records waiting in the ring buffers, in the order in which one poll
\* visits them: ring after ring in RingOrder, each ring oldest record first.
RECURSIVE Pending(_, _)
Pending(rs, i) ==
    IF i > Len(RingOrder) THEN << >> ELSE rs[RingOrder[i]] \o Pending(rs, i + 1)

\* How many records wait in the rings a poll visits before the i-th one.
RECURSIVE PendingBefore(_, _)
PendingBefore(rs, i) ==
    IF i = 1 THEN 0 ELSE Len(rs[RingOrder[i - 1]]) + PendingBefore(rs, i - 1)

\* The records one poll consumes: the first MAX_BATCH_SIZE ones that wait.
Taken(rs) == SubSeq(Pending(rs, 1), 1, Min(Len(Pending(rs, 1)), MAX_BATCH_SIZE))

\* The ring buffers after one poll: what the poll did not consume stays.
Remaining(rs) ==
    [k \in Probes |->
        LET i == CHOOSE j \in 1 .. Len(RingOrder) : RingOrder[j] = k
            n == Min(Len(rs[k]), MAX_BATCH_SIZE - Min(MAX_BATCH_SIZE, PendingBefore(rs, i)))
        IN  SubSeq(rs[k], n + 1, Len(rs[k]))]

\* The records of a batch that the callback writes to the sink, in order.
RECURSIVE EmittedOf(_)
EmittedOf(batch) ==
    IF batch = << >> THEN << >>
    ELSE (IF EventCallback(Head(batch)).emit THEN <<Head(batch)>> ELSE << >>)
            \o EmittedOf(Tail(batch))

RECURSIVE FilteredOf(_)
FilteredOf(batch) ==
    IF batch = << >> THEN 0
    ELSE (IF EventCallback(Head(batch)).filtered THEN 1 ELSE 0) + FilteredOf(Tail(batch))

\* ebpf_manager_poll_events returning normally: every record of the batch is
\* decoded, handed to the callback and released.  Its result is the number
\* of records consumed.
PollConsume ==
    /\ rings' = Remaining(rings)
    /\ emitted' = emitted \o EmittedOf(Taken(rings))
    /\ batch_log' = [i \in 1 .. Len(Taken(rings)) |->
                        <<"decode">> \o EventCallback(Taken(rings)[i]).stages
                                    \o <<"release">>]
    /\ loop_ctx' = [events_processed |-> loop_ctx.events_processed + Len(Taken(rings)),
                    events_filtered  |-> loop_ctx.events_filtered + FilteredOf(Taken(rings))]
    /\ ret' = Len(Taken(rings))
    /\ UNCHANGED interrupts

\* ebpf_manager_poll_events interrupted by a signal: nothing is consumed.
PollInterrupted ==
    /\ interrupts < MaxInterrupts
    /\ interrupts' = interrupts + 1
    /\ ret' = -EINTR
    /\ UNCHANGED <<rings, emitted, batch_log, loop_ctx>>

\* ebpf_manager_poll_events failing for good.
PollError ==
    /\ ret' = -EINTR - 1
    /\ UNCHANGED <<rings, emitted, batch_log, loop_ctx, interrupts>>

\* One call of ebpf_manager_poll_events(mgr, event_callback, &loop_ctx).
\* The call blocks for up to 10 ms: the clock may pass a second meanwhile.
PollEvents ==
    /\ (PollConsume \/ PollInterrupted \/ PollError)
    /\ now' \in {now, Min(now + 1, MaxTime)}

\* ---- the kernel side ----
\* An attached probe fires and submits a record to its ring buffer; when the
\* reserve fails because the ring is full, the record is lost.
Submit ==
    /\ submitted < quota
    /\ \E rec \in SampleRecords :
         /\ rec.kind \in mgr.attached
         /\ submitted' = submitted + 1
         /\ rings' = IF Len(rings[rec.kind]) < RingCapacity
                     THEN [rings EXCEPT ![rec.kind] =
                              Append(@, [kind |-> rec.kind, crypto |-> rec.crypto,
                                         match |-> rec.match, seq |-> submitted + 1])]
                     ELSE rings
    /\ UNCHANGED <<pc, shutdown_requested, now, duration, start_time, shutdown_start,
                   ret, mgr, emitted, batch_log, loop_ctx, interrupts, gap, path, quota>>
    /\ UNCHANGED <<poolVars, snapVars, auxVars>>

\* SIGINT or SIGTERM arrives: the handler sets the shutdown flag.
RequestShutdown ==
    /\ pc # "stopped"
    /\ ~shutdown_requested
    /\ shutdown_requested' = TRUE
    /\ UNCHANGED <<pc, now, duration, start_time, shutdown_start, ret, mgr, rings,
                   submitted, emitted, batch_log, loop_ctx, interrupts, gap, path, quota>>
    /\ UNCHANGED <<poolVars, snapVars, auxVars>>

\* ---- execute_monitor_command ----
\* Creation of the manager, the event processor, the sink and the formatter.
MonitorStart ==
    /\ pc = "start"
    /\ \E outcome \in {"ok", "no_manager", "no_processor"} :
         CASE outcome = "ok" ->
                /\ mgr' = EbpfManagerCreate
                /\ pc' = "load"
                /\ UNCHANGED <<ret, path>>
           [] outcome = "no_manager" ->
                /\ ret' = EXIT_BPF_ERROR
                /\ pc' = "stopped"
                /\ path' = "init_failure"
                /\ UNCHANGED mgr
           [] OTHER ->
                /\ mgr' = EbpfManagerDestroy(EbpfManagerCreate)
                /\ ret' = EXIT_GENERAL_ERROR
                /\ pc' = "stopped"
                /\ path' = "init_failure"
    /\ UNCHANGED <<shutdown_requested, now, duration, start_time, shutdown_start, rings,
                   submitted, emitted, batch_log, loop_ctx, interrupts, gap, quota>>
    /\ UNCHANGED <<poolVars, snapVars, auxVars>>

\* ebpf_manager_load_programs and the test of its result.
MonitorLoad ==
    /\ pc = "load"
    /\ \E loadable \in ProbeCases :
         LET r == EbpfManagerLoadPrograms(mgr, loadable)
         IN  /\ mgr' = r.mgr
             /\ IF r.ret # 0
                THEN ret' = EXIT_BPF_ERROR /\ pc' = "cleanup" /\ path' = "load_failure"
                ELSE ret' = r.ret /\ pc' = "attach" /\ UNCHANGED path
    /\ UNCHANGED <<shutdown_requested, now, duration, start_time, shutdown_start, rings,
                   submitted, emitted, batch_log, loop_ctx, interrupts, gap, quota>>
    /\ UNCHANGED <<poolVars, snapVars, auxVars>>

\* The attach step that goes on to the main loop whatever
\* ebpf_manager_attach_programs returned.
MonitorAttachIgnoresResult ==
    /\ pc = "attach"
    /\ \E attachable \in ProbeCases :
         LET r == EbpfManagerAttachPrograms(mgr, attachable)
         IN  /\ mgr' = r.mgr
             /\ ret' = r.ret /\ pc' = "loop_test"
             /\ start_time' = now
             /\ UNCHANGED path
    /\ UNCHANGED <<shutdown_requested, now, duration, shutdown_start, rings,
                   submitted, emitted, batch_log, loop_ctx, interrupts, gap, quota>>
    /\ UNCHANGED <<poolVars, snapVars, auxVars>>

\* ebpf_manager_attach_programs, the test of its result, and the reading of
\* start_time.
MonitorAttach ==
    /\ pc = "attach"
    /\ \E attachable \in ProbeCases :
         LET r == EbpfManagerAttachPrograms(mgr, attachable)
         IN  /\ mgr' = r.mgr
             /\ IF r.ret # 0
                THEN /\ ret' = EXIT_BPF_ERROR /\ pc' = "cleanup"
                     /\ path' = "attach_failure"
                     /\ UNCHANGED start_time
                ELSE /\ ret' = r.ret /\ pc' = "loop_test"
                     /\ start_time' = now
                     /\ UNCHANGED path
    /\ UNCHANGED <<shutdown_requested, now, duration, shutdown_start, rings,
                   submitted, emitted, batch_log, loop_ctx, interrupts, gap, quota>>
    /\ UNCHANGED <<poolVars, snapVars, auxVars>>

\* The test of the main loop: while (!is_shutdown_requested()).
LoopTest ==
    /\ pc = "loop_test"
    /\ IF shutdown_requested
       THEN pc' = "drain_test" /\ path' = "shutdown"
       ELSE pc' = "loop_poll" /\ UNCHANGED path
    /\ gap' = "tested"
    /\ UNCHANGED <<shutdown_requested, now, duration, start_time, shutdown_start, ret,
                   mgr, rings, submitted, emitted, batch_log, loop_ctx, interrupts, quota>>
    /\ UNCHANGED <<poolVars, snapVars, auxVars>>

\* The body of the main loop: one poll, the test of its result, the test of
\* the duration.
LoopPoll ==
    /\ pc = "loop_poll"
    /\ PollEvents
    /\ IF PollFailed(ret')
       THEN pc' = "drain_test" /\ path' = "poll_error"
       ELSE IF DurationElapsed(duration, now', start_time)
       THEN pc' = "drain_test" /\ path' = "duration"
       ELSE pc' = "loop_test" /\ UNCHANGED path
    /\ gap' = "untested"
    /\ UNCHANGED <<shutdown_requested, duration, start_time, shutdown_start, mgr,
                   submitted, quota>>
    /\ UNCHANGED <<poolVars, snapVars, auxVars>>

\* if (is_shutdown_requested()) after the main loop, and the reading of
\* shutdown_start.
DrainTest ==
    /\ pc = "drain_test"
    /\ IF shutdown_requested
       THEN pc' = "drain_loop" /\ shutdown_start' = now
       ELSE pc' = "finish" /\ UNCHANGED shutdown_start
    /\ UNCHANGED <<shutdown_requested, now, duration, start_time, ret, mgr, rings,
                   submitted, emitted, batch_log, loop_ctx, interrupts, gap, path, quota>>
    /\ UNCHANGED <<poolVars, snapVars, auxVars>>

\* The test of the drain loop: while (difftime(time(NULL), shutdown_start) < 1.0).
DrainLoop ==
    /\ pc = "drain_loop"
    /\ pc' = IF DrainOpen(now, shutdown_start) THEN "drain_poll" ELSE "finish"
    /\ UNCHANGED <<shutdown_requested, now, duration, start_time, shutdown_start, ret,
                   mgr, rings, submitted, emitted, batch_log, loop_ctx, interrupts,
                   gap, path, quota>>
    /\ UNCHANGED <<poolVars, snapVars, auxVars>>

\* The body of the drain loop: one poll and the tests of its result.
DrainPoll ==
    /\ pc = "drain_poll"
    /\ PollEvents
    /\ pc' = IF PollFailed(ret') \/ ret' = 0 THEN "finish" ELSE "drain_loop"
    /\ UNCHANGED <<shutdown_requested, duration, start_time, shutdown_start, mgr,
                   submitted, gap, path, quota>>
    /\ UNCHANGED <<poolVars, snapVars, auxVars>>

\* The statistics without ret = EXIT_SUCCESS: ret stays what the last poll
\* returned.
MonitorFinishKeepsRet ==
    /\ pc = "finish"
    /\ pc' = "cleanup"
    /\ UNCHANGED <<shutdown_requested, now, duration, start_time, shutdown_start, ret,
                   mgr, rings, submitted, emitted, batch_log, loop_ctx, interrupts,
                   gap, path, quota>>
    /\ UNCHANGED <<poolVars, snapVars, auxVars>>

\* The statistics and ret = EXIT_SUCCESS.
MonitorFinish ==
    /\ pc = "finish"
    /\ ret' = EXIT_SUCCESS
    /\ pc' = "cleanup"
    /\ UNCHANGED <<shutdown_requested, now, duration, start_time, shutdown_start, mgr,
                   rings, submitted, emitted, batch_log, loop_ctx, interrupts, gap, path, quota>>
    /\ UNCHANGED <<poolVars, snapVars, auxVars>>

\* The cleanup label without the call of ebpf_manager_cleanup.
MonitorCleanupDestroyOnly ==
    /\ pc = "cleanup"
    /\ mgr' = EbpfManagerDestroy(mgr)
    /\ pc' = "stopped"
    /\ UNCHANGED <<shutdown_requested, now, duration, start_time, shutdown_start, ret,
                   rings, submitted, emitted, batch_log, loop_ctx, interrupts, gap, path, quota>>
    /\ UNCHANGED <<poolVars, snapVars, auxVars>>

\* The cleanup label: ebpf_manager_cleanup, ebpf_manager_destroy, then the
\* formatter, the owned sink and the processor; return ret.
MonitorCleanup ==
    /\ pc = "cleanup"
    /\ mgr' = EbpfManagerDestroy(EbpfManagerCleanup(mgr))
    /\ pc' = "stopped"
    /\ UNCHANGED <<shutdown_requested, now, duration, start_time, shutdown_start, ret,
                   rings, submitted, emitted, batch_log, loop_ctx, interrupts, gap, path, quota>>
    /\ UNCHANGED <<poolVars, snapVars, auxVars>>

MonitorInit ==
    /\ pc = "start"
    /\ shutdown_requested = FALSE
    /\ now \in {0, 1}
    /\ duration \in 0 .. MaxDuration
    /\ start_time = 0
    /\ shutdown_start = 0
    /\ ret = 0
    /\ mgr = NoManager
    /\ rings = [k \in Probes |-> << >>]
    /\ quota = MaxSubmit
    /\ submitted = 0
    /\ emitted = << >>
    /\ batch_log = << >>
    /\ loop_ctx = [events_processed |-> 0, events_filtered |-> 0]
    /\ interrupts = 0
    /\ gap = "first"
    /\ path = "none"
    \* the snapshot command is not part of this specification: it has not started
    /\ snap = [pc |-> "idle"]
    \* the formatter and the pure functions are not part of this specification
    /\ fmt = [pc |-> "idle"]
    /\ sink = << >>
    /\ prof = [pc |-> "idle"]
    /\ calc = [op |-> "idle"]
    \* the pool is not part of this specification: it stays as created
    /\ pool = EventBufferPoolCreate(1)
    /\ pool_ret = NULL
    /\ pool_warn = "none"
    /\ pool_call = [op |-> "create", arg |-> NULL]
    /\ pool_hist = << >>
    /\ held = {}

\* The same initial state, with the smaller number of records.
MonitorFairInit ==
    /\ pc = "start"
    /\ shutdown_requested = FALSE
    /\ now \in {0, 1}
    /\ duration \in 0 .. MaxDuration
    /\ start_time = 0
    /\ shutdown_start = 0
    /\ ret = 0
    /\ mgr = NoManager
    /\ rings = [k \in Probes |-> << >>]
    /\ quota = MaxFairSubmit
    /\ submitted = 0
    /\ emitted = << >>
    /\ batch_log = << >>
    /\ loop_ctx = [events_processed |-> 0, events_filtered |-> 0]
    /\ interrupts = 0
    /\ gap = "first"
    /\ path = "none"
    \* the snapshot command is not part of this specification: it has not started
    /\ snap = [pc |-> "idle"]
    \* the formatter and the pure functions are not part of this specification
    /\ fmt = [pc |-> "idle"]
    /\ sink = << >>
    /\ prof = [pc |-> "idle"]
    /\ calc = [op |-> "idle"]
    \* the pool is not part of this specification: it stays as created
    /\ pool = EventBufferPoolCreate(1)
    /\ pool_ret = NULL
    /\ pool_warn = "none"
    /\ pool_call = [op |-> "create", arg |-> NULL]
    /\ pool_hist = << >>
    /\ held = {}

MonitorNext ==
    \/ Submit
    \/ RequestShutdown
    \/ MonitorStart
    \/ MonitorLoad
    \/ MonitorAttach
    \/ LoopTest
    \/ LoopPoll
    \/ DrainTest
    \/ DrainLoop
    \/ DrainPoll
    \/ MonitorFinish
    \/ MonitorCleanup

SpecMonitor == MonitorInit /\ [][MonitorNext]_vars

\* The steps of execute_monitor_command itself.
MonitorStep ==
    \/ MonitorStart
    \/ MonitorLoad
    \/ MonitorAttach
    \/ LoopTest
    \/ LoopPoll
    \/ DrainTest
    \/ DrainLoop
    \/ DrainPoll
    \/ MonitorFinish
    \/ MonitorCleanup

\* The monitor command under a scheduler that keeps running it: every call
\* it makes returns, a poll within its 10 ms, and its next step is taken.
SpecMonitorFair == MonitorFairInit /\ [][MonitorNext]_vars /\ WF_vars(MonitorStep)

(***************************************************************************)
(* The snapshot command: execute_snapshot_command.                         *)
(***************************************************************************)

\* The test of the scan loop: the time budget is used up.
SnapshotTimedOut(t, start) == t - start >= SNAPSHOT_TIMEOUT

\* SIGINT or SIGTERM arrives while the snapshot command runs.
SnapshotSignal ==
    /\ snap.pc # "stopped"
    /\ ~shutdown_requested
    /\ shutdown_requested' = TRUE
    /\ UNCHANGED <<pc, now, duration, start_time, shutdown_start, ret, mgr, rings,
                   submitted, emitted, batch_log, loop_ctx, interrupts, gap, path, quota>>
    /\ UNCHANGED <<poolVars, snapVars, auxVars>>

\* One iteration of the scan loop that finds the time budget used up: break.
SnapshotTimeout ==
    /\ snap.pc = "scan"
    /\ snap.i < snap.count
    /\ SnapshotTimedOut(now, snap.start_time)
    /\ snap' = [snap EXCEPT !.pc = "write"]
    /\ UNCHANGED <<pc, shutdown_requested, now, duration, start_time, shutdown_start,
                   ret, mgr, rings, submitted, emitted, batch_log, loop_ctx,
                   interrupts, gap, path, quota>>
    /\ UNCHANGED <<poolVars, auxVars>>

\* The scan that counts every process it reads into total_processes.
SnapshotScanPidCountsAll ==
    /\ snap.pc = "scan"
    /\ snap.i < snap.count
    /\ ~SnapshotTimedOut(now, snap.start_time)
    /\ \E libs \in 0 .. MaxFound, files \in 0 .. MaxFound :
         snap' = IF libs > 0 \/ files > 0
                 THEN [snap EXCEPT !.i = @ + 1,
                                   !.processes =
                                       Append(@, [library_count |-> libs,
                                                  file_count |-> files]),
                                   !.process_count = @ + 1,
                                   !.total_processes = @ + 1,
                                   !.total_libraries = @ + libs,
                                   !.total_files = @ + files]
                 ELSE [snap EXCEPT !.i = @ + 1, !.total_processes = @ + 1]
    /\ \E secs \in 0 .. MaxScanSeconds :
         now' = Min(now + secs, SNAPSHOT_TIMEOUT + MaxScanSeconds)
    /\ gap' = "untested"
    /\ UNCHANGED <<pc, shutdown_requested, duration, start_time, shutdown_start,
                   ret, mgr, rings, submitted, emitted, batch_log, loop_ctx,
                   interrupts, path, quota>>
    /\ UNCHANGED <<poolVars, auxVars>>

\* One iteration of the scan loop within the time budget: the libraries and
\* the open files of one process are read, and the process is added to the
\* snapshot when it has any.
SnapshotScanPid ==
    /\ snap.pc = "scan"
    /\ snap.i < snap.count
    /\ ~SnapshotTimedOut(now, snap.start_time)
    /\ \E libs \in 0 .. MaxFound, files \in 0 .. MaxFound :
         snap' = IF libs > 0 \/ files > 0
                 THEN [snap EXCEPT !.i = @ + 1,
                                   !.processes =
                                       Append(@, [library_count |-> libs,
                                                  file_count |-> files]),
                                   !.process_count = @ + 1,
                                   !.total_processes = @ + 1,
                                   !.total_libraries = @ + libs,
                                   !.total_files = @ + files]
                 ELSE [snap EXCEPT !.i = @ + 1]
    /\ \E secs \in 0 .. MaxScanSeconds :
         now' = Min(now + secs, SNAPSHOT_TIMEOUT + MaxScanSeconds)
    /\ gap' = "untested"
    /\ UNCHANGED <<pc, shutdown_requested, duration, start_time, shutdown_start,
                   ret, mgr, rings, submitted, emitted, batch_log, loop_ctx,
                   interrupts, path, quota>>
    /\ UNCHANGED <<poolVars, auxVars>>

\* The scan loop ends: every process of the list has been scanned.
SnapshotLoopEnd ==
    /\ snap.pc = "scan"
    /\ snap.i >= snap.count
    /\ snap' = [snap EXCEPT !.pc = "write"]
    /\ UNCHANGED <<pc, shutdown_requested, now, duration, start_time, shutdown_start,
                   ret, mgr, rings, submitted, emitted, batch_log, loop_ctx,
                   interrupts, gap, path, quota>>
    /\ UNCHANGED <<poolVars, auxVars>>

\* What output_formatter_write_snapshot writes of a snapshot: an entry for
\* each of the first process_count processes, with as many libraries and
\* open files as its counts say, and the summary.
SnapshotDocument(snapshot) ==
    [processes |-> [i \in 1 .. snapshot.process_count |->
                      [libraries |-> snapshot.processes[i].library_count,
                       open_crypto_files |-> snapshot.processes[i].file_count]],
     summary |-> [total_processes |-> snapshot.total_processes,
                  total_libraries |-> snapshot.total_libraries,
                  total_files |-> snapshot.total_files]]

\* output_formatter_write_snapshot, the test of its result, and the cleanup.
SnapshotWrite ==
    /\ snap.pc = "write"
    /\ \E written \in BOOLEAN :
         /\ snap' = [snap EXCEPT !.pc = "stopped",
                                 !.ret = IF written THEN EXIT_SUCCESS
                                         ELSE EXIT_GENERAL_ERROR]
         /\ sink' = IF written THEN Append(sink, SnapshotDocument(snap)) ELSE sink
    /\ UNCHANGED <<pc, shutdown_requested, now, duration, start_time, shutdown_start,
                   ret, mgr, rings, submitted, emitted, batch_log, loop_ctx,
                   interrupts, gap, path, quota>>
    /\ UNCHANGED <<fmt, calc, prof>>
    /\ UNCHANGED poolVars

\* The snapshot command after the scan of the process list.
SnapshotInit ==
    /\ \E count \in 1 .. MaxPids :
         snap = [pc |-> "scan", i |-> 0, count |-> count, start_time |-> 0,
                 processes |-> << >>, process_count |-> 0, total_processes |-> 0, total_libraries |-> 0,
                 total_files |-> 0, ret |-> EXIT_SUCCESS]
    /\ now = 0
    /\ shutdown_requested = FALSE
    /\ gap = "first"
    \* the monitor command and the pool are not part of this specification
    /\ pc = "start"
    /\ duration = 0
    /\ start_time = 0
    /\ shutdown_start = 0
    /\ ret = 0
    /\ mgr = NoManager
    /\ rings = [k \in Probes |-> << >>]
    /\ quota = 0
    /\ submitted = 0
    /\ emitted = << >>
    /\ batch_log = << >>
    /\ loop_ctx = [events_processed |-> 0, events_filtered |-> 0]
    /\ interrupts = 0
    /\ path = "none"
    /\ pool = EventBufferPoolCreate(1)
    /\ pool_ret = NULL
    /\ pool_warn = "none"
    /\ pool_call = [op |-> "create", arg |-> NULL]
    /\ pool_hist = << >>
    /\ held = {}
    \* the formatter and the pure functions are not part of this specification
    /\ fmt = [pc |-> "idle"]
    /\ sink = << >>
    /\ prof = [pc |-> "idle"]
    /\ calc = [op |-> "idle"]

SnapshotNext ==
    \/ SnapshotSignal
    \/ SnapshotTimeout
    \/ SnapshotScanPid
    \/ SnapshotLoopEnd
    \/ SnapshotWrite

SpecSnapshot == SnapshotInit /\ [][SnapshotNext]_vars

(***************************************************************************)
(* The output formatter and its sink: output_formatter.c, and the part of  *)
(* execute_monitor_command that opens the sink, creates the formatter,     *)
(* destroys it and closes the sink.                                        *)
(***************************************************************************)

Formats == {"json_stream", "json_array", "json_pretty", "summary"}

\* The string fields of an event that can be NULL.
StringFields ==
    {"timestamp", "process", "exe", "file", "flags", "library", "library_name",
     "cmdline", "function_name"}

\* The sets of NULL string fields the events are drawn with.
NullCases == {{}, {"timestamp"}, {"process", "exe"}, StringFields}

\* The events handed to output_formatter_write_event: an event of one of the
\* five types, of a type the formatter does not know, or without a type.
FormatterEvents ==
    [event_type : Probes \cup {"unknown", "null"}, nulls : NullCases]

\* A string value as the writers print it: quoted, or null.
StringOrNull(event, key) == IF key \in event.nulls THEN "null" ELSE "string"

\* The fields write_<type>_event_json prints after the common head, in order.
OwnFields(event) ==
    CASE event.event_type = "file_open" ->
            << <<"exe", StringOrNull(event, "exe")>>,
               <<"file", StringOrNull(event, "file")>>,
               <<"file_type", "string">>,
               <<"flags", StringOrNull(event, "flags")>>,
               <<"result", "number">> >>
      [] event.event_type = "lib_load" ->
            << <<"exe", StringOrNull(event, "exe")>>,
               <<"library", StringOrNull(event, "library")>>,
               <<"library_name", StringOrNull(event, "library_name")>> >>
      [] event.event_type = "process_exec" ->
            << <<"exe", StringOrNull(event, "exe")>>,
               <<"cmdline", StringOrNull(event, "cmdline")>> >>
      [] event.event_type = "process_exit" ->
            << <<"exit_code", "number">> >>
      [] event.event_type = "api_call" ->
            << <<"exe", StringOrNull(event, "exe")>>,
               <<"function_name", StringOrNull(event, "function_name")>>,
               <<"library", StringOrNull(event, "library")>> >>
      [] OTHER -> << >>

\* The fields of one event object, in the order they are printed.  The
\* compact writers leave a NULL timestamp out; the pretty ones print null.
EventFields(event, compact) ==
    << <<"event_type", "string">> >>
      \o (IF compact /\ "timestamp" \in event.nulls
          THEN << >>
          ELSE << <<"timestamp", StringOrNull(event, "timestamp")>> >>)
      \o << <<"pid", "number">>, <<"uid", "number">>,
            <<"process", StringOrNull(event, "process")>> >>
      \o OwnFields(event)

\* The fields as tokens of the sink: every field but the last is followed by
\* a comma.
FieldTokens(fields) ==
    [i \in 1 .. Len(fields) |-> <<"field", fields[i][1], fields[i][2], i < Len(fields)>>]

\* output_formatter_create on an open sink.
OutputFormatterCreate(format) ==
    [fmt |-> [format |-> format, first_event |-> TRUE,
              array_started |-> (format = "json_array")],
     out |-> IF format = "json_array" THEN << <<"[">> >> ELSE << >>]

\* output_formatter_finalize.
OutputFormatterFinalize(f) ==
    [fmt |-> f,
     out |-> IF f.format = "json_array" /\ f.array_started THEN << <<"]">> >> ELSE << >>,
     ret |-> 0]

\* output_formatter_write_event that prints a comma ahead of every event.
WriteEventCommaAlways(f, event) ==
    [fmt |-> [f EXCEPT !.first_event = FALSE],
     out |-> << <<",">>, <<"{">> >>
                \o FieldTokens(EventFields(event, f.format = "json_stream"))
                \o << <<"}">> >>,
     ret |-> 0]

\* output_formatter_write_event.
WriteEvent(f, event) ==
    IF event.event_type = "null"
    THEN [fmt |-> f, out |-> << >>, ret |-> -1]
    ELSE LET head == (IF f.format = "json_array" /\ ~f.first_event
                      THEN << <<",">> >> ELSE << >>) \o << <<"{">> >>
             f2   == IF f.format = "json_array"
                     THEN [f EXCEPT !.first_event = FALSE] ELSE f
         IN  IF event.event_type \notin Probes
             THEN [fmt |-> f2, out |-> head, ret |-> -1]
             ELSE [fmt |-> f2,
                   out |-> head
                            \o FieldTokens(EventFields(event, f.format = "json_stream"))
                            \o << <<"}">> >>
                            \o (IF f.format = "json_stream" THEN << <<"\n">> >> ELSE << >>),
                   ret |-> 0]

\* The driver opens the sink: the file named by --output, or stdout.
DriverOpenOutput ==
    /\ fmt.pc = "start"
    /\ \E opened \in BOOLEAN :
         fmt' = IF fmt.output_file_arg /\ ~opened
                THEN [fmt EXCEPT !.pc = "done"]
                ELSE [fmt EXCEPT !.pc = "create",
                                 !.output = IF fmt.output_file_arg THEN "file" ELSE "stdout",
                                 !.opened = IF fmt.output_file_arg THEN {"file"} ELSE {}]
    /\ UNCHANGED <<sink, calc, prof>>
    /\ UNCHANGED <<poolVars, monVars, snapVars>>

\* The driver creates the formatter; when that fails it closes the file it
\* opened and returns.
DriverCreateFormatter ==
    /\ fmt.pc = "create"
    /\ \E created \in BOOLEAN :
         IF created
         THEN LET r == OutputFormatterCreate(fmt.format_arg)
              IN  /\ fmt' = [fmt EXCEPT !.pc = "live", !.self = r.fmt]
                  /\ sink' = sink \o r.out
         ELSE /\ fmt' = [fmt EXCEPT !.pc = "done",
                                    !.closed = IF fmt.output_file_arg /\ fmt.output = "file"
                                               THEN @ \cup {"file"} ELSE @,
                                    !.closed_by = IF fmt.output_file_arg /\ fmt.output = "file"
                                                  THEN @ \cup {"driver"} ELSE @]
              /\ UNCHANGED sink
    /\ UNCHANGED <<calc, prof>>
    /\ UNCHANGED <<poolVars, monVars, snapVars>>

\* One call of output_formatter_write_event.
FormatterWrite ==
    /\ fmt.pc = "live"
    /\ fmt.writes < MaxWrites
    /\ \E event \in FormatterEvents :
         LET r == WriteEvent(fmt.self, event)
         IN  /\ fmt' = [fmt EXCEPT !.self = r.fmt,
                                   !.writes = @ + 1,
                                   !.written = IF r.ret = 0 THEN @ + 1 ELSE @,
                                   !.last = event,
                                   !.ret = r.ret]
             /\ sink' = sink \o r.out
    /\ UNCHANGED <<calc, prof>>
    /\ UNCHANGED <<poolVars, monVars, snapVars>>

\* One explicit call of output_formatter_finalize.
FormatterFinalize ==
    /\ fmt.pc = "live"
    /\ fmt.finalized < MaxFinalize
    /\ LET r == OutputFormatterFinalize(fmt.self)
       IN  /\ fmt' = [fmt EXCEPT !.self = r.fmt, !.finalized = @ + 1, !.ret = r.ret]
           /\ sink' = sink \o r.out
    /\ UNCHANGED <<calc, prof>>
    /\ UNCHANGED <<poolVars, monVars, snapVars>>

\* The cleanup of the driver that closes its sink whoever opened it.
DriverCleanupOutputCloseAlways ==
    /\ fmt.pc = "live"
    /\ LET r == OutputFormatterFinalize(fmt.self)
       IN  /\ fmt' = [fmt EXCEPT !.pc = "done", !.self = r.fmt, !.finalized = @ + 1,
                                 !.destroyed = TRUE,
                                 !.closed = @ \cup {fmt.output},
                                 !.closed_by = @ \cup {"driver"}]
           /\ sink' = sink \o r.out
    /\ UNCHANGED <<calc, prof>>
    /\ UNCHANGED <<poolVars, monVars, snapVars>>

\* The cleanup of the driver: output_formatter_destroy, which finalizes and
\* frees the formatter and closes nothing, then fclose of the sink when the
\* driver opened it from --output.
DriverCleanupOutput ==
    /\ fmt.pc = "live"
    /\ LET r == OutputFormatterFinalize(fmt.self)
       IN  /\ fmt' = [fmt EXCEPT !.pc = "done", !.self = r.fmt, !.finalized = @ + 1,
                                 !.destroyed = TRUE,
                                 !.closed = IF fmt.output_file_arg /\ fmt.output # "stdout"
                                            THEN @ \cup {fmt.output} ELSE @,
                                 !.closed_by = IF fmt.output_file_arg /\ fmt.output # "stdout"
                                               THEN @ \cup {"driver"} ELSE @]
           /\ sink' = sink \o r.out
    /\ UNCHANGED <<calc, prof>>
    /\ UNCHANGED <<poolVars, monVars, snapVars>>

FormatterInit ==
    /\ \E format \in Formats, named \in BOOLEAN :
         fmt = [pc |-> "start", format_arg |-> format, output_file_arg |-> named,
                output |-> "none", opened |-> {}, closed |-> {}, closed_by |-> {},
                self |-> [format |-> format, first_event |-> TRUE, array_started |-> FALSE],
                writes |-> 0, written |-> 0, finalized |-> 0, destroyed |-> FALSE,
                last |-> [event_type |-> "null", nulls |-> {}], ret |-> 0]
    /\ sink = << >>
    /\ prof = [pc |-> "idle"]
    /\ calc = [op |-> "idle"]
    \* the pool and the commands are not part of this specification
    /\ pool = EventBufferPoolCreate(1)
    /\ pool_ret = NULL
    /\ pool_warn = "none"
    /\ pool_call = [op |-> "create", arg |-> NULL]
    /\ pool_hist = << >>
    /\ held = {}
    /\ pc = "start"
    /\ shutdown_requested = FALSE
    /\ now = 0
    /\ duration = 0
    /\ start_time = 0
    /\ shutdown_start = 0
    /\ ret = 0
    /\ mgr = NoManager
    /\ rings = [k \in Probes |-> << >>]
    /\ quota = 0
    /\ submitted = 0
    /\ emitted = << >>
    /\ batch_log = << >>
    /\ loop_ctx = [events_processed |-> 0, events_filtered |-> 0]
    /\ interrupts = 0
    /\ gap = "first"
    /\ path = "none"
    /\ snap = [pc |-> "idle"]

FormatterNext ==
    \/ DriverOpenOutput
    \/ DriverCreateFormatter
    \/ FormatterWrite
    \/ FormatterFinalize
    \/ DriverCleanupOutput

SpecFormatter == FormatterInit /\ [][FormatterNext]_vars

(***************************************************************************)
(* Path redaction: privacy_filter_path (privacy_filter.c).  A path is the  *)
(* sequence of its separators and names; prefix tests on the string are    *)
(* prefix tests on this sequence, no name being the start of another.      *)
(***************************************************************************)

\* The separators and names paths are drawn from.
PathTokens == {"/", "home", "root", "etc", "USER", "ROOT", "alice", "key"}

\* Every path of at most n tokens.
PathsUpTo(n) == UNION {[1 .. k -> PathTokens] : k \in 0 .. n}

\* strncmp(path, prefix, strlen(prefix)) == 0
HasPrefix(p, prefix) ==
    Len(p) >= Len(prefix) /\ SubSeq(p, 1, Len(prefix)) = prefix

\* strchr(p + from - 1, '/'): the index of the first separator at or after
\* from, 0 when there is none.
FirstSlashFrom(p, from) ==
    LET slashes == {i \in from .. Len(p) : p[i] = "/"}
    IN  IF slashes = {} THEN 0 ELSE CHOOSE i \in slashes : \A j \in slashes : i <= j

\* privacy_filter_path on a path that is not NULL, every allocation
\* succeeding.
PrivacyFilterPath(p, redact_enabled) ==
    IF ~redact_enabled THEN p
    ELSE IF HasPrefix(p, <<"/", "home", "/">>)
    THEN IF FirstSlashFrom(p, 4) # 0
         THEN <<"/", "home", "/", "USER">> \o SubSeq(p, FirstSlashFrom(p, 4), Len(p))
         ELSE <<"/", "home", "/", "USER">>
    ELSE IF HasPrefix(p, <<"/", "root", "/">>)
    THEN <<"/", "home", "/", "ROOT">> \o SubSeq(p, 3, Len(p))
    ELSE IF p = <<"/", "root">> THEN <<"/", "home", "/", "ROOT">>
    ELSE p

\* The first call: NULL when the allocation of the result fails.
RedactFirst ==
    /\ calc.op = "input"
    /\ \E allocated \in BOOLEAN :
         calc' = [calc EXCEPT !.op = "once",
                              !.first = IF allocated
                                        THEN PrivacyFilterPath(calc.path, calc.redact_enabled)
                                        ELSE << >>,
                              !.first_null = ~allocated]
    /\ UNCHANGED <<fmt, sink, prof>>
    /\ UNCHANGED <<poolVars, monVars, snapVars>>

\* The second call, on the result of the first: NULL for NULL.
RedactSecond ==
    /\ calc.op = "once"
    /\ \E allocated \in BOOLEAN :
         calc' = [calc EXCEPT !.op = "twice",
                              !.second = IF allocated /\ ~calc.first_null
                                         THEN PrivacyFilterPath(calc.first, calc.redact_enabled)
                                         ELSE << >>,
                              !.second_null = ~allocated \/ calc.first_null]
    /\ UNCHANGED <<fmt, sink, prof>>
    /\ UNCHANGED <<poolVars, monVars, snapVars>>

RedactInit ==
    /\ \E p \in PathsUpTo(MaxPathLen), enabled \in BOOLEAN :
         calc = [op |-> "input", path |-> p, redact_enabled |-> enabled,
                 first |-> << >>, first_null |-> FALSE,
                 second |-> << >>, second_null |-> FALSE]
    \* nothing else is part of this specification
    /\ pool = EventBufferPoolCreate(1)
    /\ pool_ret = NULL
    /\ pool_warn = "none"
    /\ pool_call = [op |-> "create", arg |-> NULL]
    /\ pool_hist = << >>
    /\ held = {}
    /\ pc = "start"
    /\ shutdown_requested = FALSE
    /\ now = 0
    /\ duration = 0
    /\ start_time = 0
    /\ shutdown_start = 0
    /\ ret = 0
    /\ mgr = NoManager
    /\ rings = [k \in Probes |-> << >>]
    /\ quota = 0
    /\ submitted = 0
    /\ emitted = << >>
    /\ batch_log = << >>
    /\ loop_ctx = [events_processed |-> 0, events_filtered |-> 0]
    /\ interrupts = 0
    /\ gap = "first"
    /\ path = "none"
    /\ snap = [pc |-> "idle"]
    /\ fmt = [pc |-> "idle"]
    /\ sink = << >>
    /\ prof = [pc |-> "idle"]

RedactNext ==
    \/ RedactFirst
    \/ RedactSecond

SpecRedact == RedactInit /\ [][RedactNext]_vars

(***************************************************************************)
(* Event filters: filter_set_add, filter_matches_event, filter_set_matches *)
(* and event_processor_matches_filters (event_processor.c).  A string is   *)
(* the sequence of its characters; a string member of an event is the      *)
(* empty sequence when it is NULL and the one-element sequence of its      *)
(* string otherwise.                                                       *)
(***************************************************************************)

\* Strings the members of the events are drawn from.
SampleStrings == { <<"s", "l">>, <<"S", "L">>, <<"/", "s", "l">>, <<"l">> }

\* Patterns the filters are drawn from.
SamplePatterns == { << >>, <<"s">>, <<"s", "L">>, <<"*">>, <<"/", "*">>, <<"l", "s">> }

\* A string member: NULL or one of the strings.
Optional(strings) == { << >> } \cup { <<str>> : str \in strings }

\* The events the filters are matched against.
FilterEvents ==
    [pid : 1 .. MaxFilterPid,
     process : Optional(SampleStrings),
     library : Optional(SampleStrings),
     library_name : Optional({ <<"s", "l">> }),
     file : Optional(SampleStrings)]

\* The filters that can be added: filter_type_t and the value of the type.
Filters ==
    [type : {"pid"}, value : 1 .. MaxFilterPid]
      \cup [type : {"process_name", "library", "file_path"}, value : SamplePatterns]

\* tolower
ToLower(c) == IF c = "S" THEN "s" ELSE IF c = "L" THEN "l" ELSE c

\* substring_match on two strings that are not NULL.
SubstringMatch(pattern, string) ==
    IF Len(pattern) = 0 THEN TRUE
    ELSE IF Len(pattern) > Len(string) THEN FALSE
    ELSE \E i \in 0 .. (Len(string) - Len(pattern)) :
            \A j \in 1 .. Len(pattern) : ToLower(string[i + j]) = ToLower(pattern[j])

\* fnmatch(pattern, string, FNM_PATHNAME) == 0 for patterns of literal
\* characters and *: a * stands for any run of characters other than /.
RECURSIVE GlobMatch(_, _)
GlobMatch(pattern, string) ==
    IF pattern = << >> THEN string = << >>
    ELSE IF Head(pattern) = "*"
    THEN \/ GlobMatch(Tail(pattern), string)
         \/ (string # << >> /\ Head(string) # "/" /\ GlobMatch(pattern, Tail(string)))
    ELSE string # << >> /\ Head(string) = Head(pattern)
           /\ GlobMatch(Tail(pattern), Tail(string))

\* filter_matches_event
FilterMatchesEvent(filter, event) ==
    CASE filter.type = "pid" -> event.pid = filter.value
      [] filter.type = "process_name" ->
            event.process # << >> /\ SubstringMatch(filter.value, event.process[1])
      [] filter.type = "library" ->
            \/ (event.library # << >> /\ SubstringMatch(filter.value, event.library[1]))
            \/ (event.library_name # << >>
                  /\ SubstringMatch(filter.value, event.library_name[1]))
      [] filter.type = "file_path" ->
            event.file # << >> /\ GlobMatch(filter.value, event.file[1])
      [] OTHER -> FALSE

\* filter_set_create
FilterSetCreate == [filters |-> << >>, count |-> 0]

\* filter_set_add when the allocations succeed: the filter becomes the head
\* of the list.
FilterSetAdd(set, filter) ==
    [filters |-> <<filter>> \o set.filters, count |-> set.count + 1]

\* filter_set_matches that tests the head of the list only.
FilterSetMatchesHeadOnly(set, event) ==
    IF set.count = 0 \/ set.filters = << >> THEN TRUE
    ELSE FilterMatchesEvent(set.filters[1], event)

\* filter_set_matches that passes an event only when some filter matches it.
FilterSetMatchesNeedsFilter(set, event) ==
    \E i \in 1 .. Len(set.filters) : FilterMatchesEvent(set.filters[i], event)

\* filter_set_matches on a set and an event that are not NULL.
FilterSetMatches(set, event) ==
    IF set.count = 0 \/ set.filters = << >> THEN TRUE
    ELSE \A i \in 1 .. Len(set.filters) : FilterMatchesEvent(set.filters[i], event)

\* One call of filter_set_add; it returns -1 and leaves the set alone when
\* an allocation fails.
FilterAdd ==
    /\ calc.op = "build"
    /\ calc.adds < MaxFilters
    /\ \E filter \in Filters, allocated \in BOOLEAN :
         calc' = [calc EXCEPT !.adds = @ + 1,
                              !.set = IF allocated THEN FilterSetAdd(@, filter) ELSE @,
                              !.added = IF allocated THEN Append(@, filter) ELSE @,
                              !.ret = IF allocated THEN 0 ELSE -1]
    /\ UNCHANGED <<fmt, sink, prof>>
    /\ UNCHANGED <<poolVars, monVars, snapVars>>

\* event_processor_matches_filters on the event: the processor and its
\* filter set exist once event_processor_create has returned.
FilterMatch ==
    /\ calc.op = "build"
    /\ calc' = [calc EXCEPT !.op = "matched",
                            !.result = FilterSetMatches(calc.set, calc.event)]
    /\ UNCHANGED <<fmt, sink, prof>>
    /\ UNCHANGED <<poolVars, monVars, snapVars>>

FilterInit ==
    /\ \E event \in FilterEvents :
         calc = [op |-> "build", event |-> event, set |-> FilterSetCreate,
                 added |-> << >>, adds |-> 0, ret |-> 0, result |-> FALSE]
    \* nothing else is part of this specification
    /\ pool = EventBufferPoolCreate(1)
    /\ pool_ret = NULL
    /\ pool_warn = "none"
    /\ pool_call = [op |-> "create", arg |-> NULL]
    /\ pool_hist = << >>
    /\ held = {}
    /\ pc = "start"
    /\ shutdown_requested = FALSE
    /\ now = 0
    /\ duration = 0
    /\ start_time = 0
    /\ shutdown_start = 0
    /\ ret = 0
    /\ mgr = NoManager
    /\ rings = [k \in Probes |-> << >>]
    /\ quota = 0
    /\ submitted = 0
    /\ emitted = << >>
    /\ batch_log = << >>
    /\ loop_ctx = [events_processed |-> 0, events_filtered |-> 0]
    /\ interrupts = 0
    /\ gap = "first"
    /\ path = "none"
    /\ snap = [pc |-> "idle"]
    /\ fmt = [pc |-> "idle"]
    /\ sink = << >>
    /\ prof = [pc |-> "idle"]

FilterNext ==
    \/ FilterAdd
    \/ FilterMatch

SpecFilter == FilterInit /\ [][FilterNext]_vars

(***************************************************************************)
(* The acceptance test of event_callback (main.c) on the path of the       *)
(* event: classify_crypto_file and extract_library_name                    *)
(* (event_processor.c) and the whitelist of library names.  A path is the  *)
(* sequence of its separators, name parts and suffixes; a substring or a   *)
(* suffix of the string is a run of this sequence, for the parts used.     *)
(***************************************************************************)

\* What library paths are made of.
LibTokens == {"/", "lib", "ssl", "crypto", "foo", ".so"}

\* What file paths are made of.
FileTokens == {"/", "cert", ".pem", ".PEM", ".key", ".txt"}

\* Every sequence of 1 to n of the tokens.
TokenPaths(tokens, n) == UNION {[1 .. k -> tokens] : k \in 1 .. n}

\* The whitelist of event_callback.
CryptoLibraryNames ==
    { <<"lib", "ssl">>, <<"lib", "crypto">>, <<"lib", "gnutls">>,
      <<"lib", "sodium">>, <<"lib", "nss3">>, <<"lib", "mbedtls">> }

\* strstr(string, sub) != NULL
StrStr(string, sub) ==
    \E i \in 1 .. (Len(string) - Len(sub) + 1) :
        SubSeq(string, i, i + Len(sub) - 1) = sub

\* str_ends_with for a suffix that is one token: the comparison ignores case.
StrEndsWith(string, suffix) ==
    /\ Len(string) >= 1
    /\ (IF string[Len(string)] = ".PEM" THEN ".pem" ELSE string[Len(string)]) = suffix

\* classify_crypto_file
ClassifyCryptoFile(p) ==
    IF StrEndsWith(p, ".crt") \/ StrEndsWith(p, ".cer") \/ StrEndsWith(p, ".pem")
    THEN "certificate"
    ELSE IF StrEndsWith(p, ".key") THEN "private_key"
    ELSE IF StrEndsWith(p, ".p12") \/ StrEndsWith(p, ".pfx")
              \/ StrEndsWith(p, ".jks") \/ StrEndsWith(p, ".keystore")
    THEN "keystore"
    ELSE "unknown"

\* strrchr(path, '/') + 1, or the path itself without a separator.
FileName(p) ==
    LET slashes == {i \in 1 .. Len(p) : p[i] = "/"}
    IN  IF slashes = {} THEN p
        ELSE SubSeq(p, (CHOOSE i \in slashes : \A j \in slashes : j <= i) + 1, Len(p))

\* The file name up to its last dot.
ExtractLibraryNameLastDot(p) ==
    LET name == FileName(p)
        dots == {i \in 1 .. Len(name) : name[i] = ".so"}
    IN  IF dots = {} THEN name
        ELSE SubSeq(name, 1, (CHOOSE i \in dots : \A j \in dots : j <= i) - 1)

\* extract_library_name: the file name up to its first dot.
ExtractLibraryName(p) ==
    LET name == FileName(p)
        dots == {i \in 1 .. Len(name) : name[i] = ".so"}
    IN  IF dots = {} THEN name
        ELSE SubSeq(name, 1, (CHOOSE i \in dots : \A j \in dots : i <= j) - 1)

\* The whitelist test of event_callback: strstr on event->library.
LibraryAccepted(p) == \E name \in CryptoLibraryNames : StrStr(p, name)

\* The events the callback is given: the kind and the path of the kind.
AcceptEvents ==
    [kind : {"file_open"}, path : TokenPaths(FileTokens, MaxFilePathLen)]
      \cup [kind : {"lib_load"}, path : TokenPaths(LibTokens, MaxLibPathLen)]
      \cup [kind : {"process_exec", "process_exit", "api_call"}, path : { << >> }]

\* The kind-specific acceptance of event_callback; allocated: whether
\* extract_library_name got its memory.
Accepted(event, allocated) ==
    CASE event.kind = "file_open" -> ClassifyCryptoFile(event.path) # "unknown"
      [] event.kind = "lib_load" -> allocated /\ LibraryAccepted(event.path)
      [] OTHER -> TRUE

\* event_callback on one event: acceptance, then the user's filters, then
\* the write to the sink.
AcceptCallback ==
    /\ calc.op = "event"
    /\ \E allocated \in BOOLEAN :
         calc' = [calc EXCEPT
                    !.op = "done",
                    !.file_type = IF calc.event.kind = "file_open"
                                  THEN ClassifyCryptoFile(calc.event.path) ELSE @,
                    !.library_name = IF calc.event.kind = "lib_load" /\ allocated
                                     THEN ExtractLibraryName(calc.event.path) ELSE @,
                    !.filtered = ~Accepted(calc.event, allocated) \/ ~calc.matches,
                    !.emitted = Accepted(calc.event, allocated) /\ calc.matches]
    /\ UNCHANGED <<fmt, sink, prof>>
    /\ UNCHANGED <<poolVars, monVars, snapVars>>

AcceptInit ==
    /\ \E event \in AcceptEvents, matches \in BOOLEAN :
         calc = [op |-> "event", event |-> event, matches |-> matches,
                 file_type |-> "unknown", library_name |-> << >>,
                 filtered |-> FALSE, emitted |-> FALSE]
    \* nothing else is part of this specification
    /\ pool = EventBufferPoolCreate(1)
    /\ pool_ret = NULL
    /\ pool_warn = "none"
    /\ pool_call = [op |-> "create", arg |-> NULL]
    /\ pool_hist = << >>
    /\ held = {}
    /\ pc = "start"
    /\ shutdown_requested = FALSE
    /\ now = 0
    /\ duration = 0
    /\ start_time = 0
    /\ shutdown_start = 0
    /\ ret = 0
    /\ mgr = NoManager
    /\ rings = [k \in Probes |-> << >>]
    /\ quota = 0
    /\ submitted = 0
    /\ emitted = << >>
    /\ batch_log = << >>
    /\ loop_ctx = [events_processed |-> 0, events_filtered |-> 0]
    /\ interrupts = 0
    /\ gap = "first"
    /\ path = "none"
    /\ snap = [pc |-> "idle"]
    /\ fmt = [pc |-> "idle"]
    /\ sink = << >>
    /\ prof = [pc |-> "idle"]

AcceptNext == AcceptCallback

SpecAccept == AcceptInit /\ [][AcceptNext]_vars

(***************************************************************************)
(* The producers alone: the probes submit while the poll of the main loop  *)
(* is not running, so that a ring buffer fills up.                         *)
(***************************************************************************)

\* The state of the monitor command inside its main loop, every probe
\* attached and nothing submitted yet.
RingInit ==
    /\ pc = "loop_test"
    /\ shutdown_requested = FALSE
    /\ now = 0
    /\ duration = 0
    /\ start_time = 0
    /\ shutdown_start = 0
    /\ ret = 0
    /\ mgr = [EbpfManagerCreate EXCEPT !.loaded = Probes, !.attached = Probes,
                                       !.load_calls = 1]
    /\ rings = [k \in Probes |-> << >>]
    /\ quota = MaxRingSubmit
    /\ submitted = 0
    /\ emitted = << >>
    /\ batch_log = << >>
    /\ loop_ctx = [events_processed |-> 0, events_filtered |-> 0]
    /\ interrupts = 0
    /\ gap = "first"
    /\ path = "none"
    \* nothing else is part of this specification
    /\ pool = EventBufferPoolCreate(1)
    /\ pool_ret = NULL
    /\ pool_warn = "none"
    /\ pool_call = [op |-> "create", arg |-> NULL]
    /\ pool_hist = << >>
    /\ held = {}
    /\ snap = [pc |-> "idle"]
    /\ fmt = [pc |-> "idle"]
    /\ sink = << >>
    /\ prof = [pc |-> "idle"]
    /\ calc = [op |-> "idle"]

RingNext == Submit

SpecRing == RingInit /\ [][RingNext]_vars

(***************************************************************************)
(* json_escape_string (output_formatter.c).  A string is the sequence of   *)
(* the classes of its characters; what is followed is how many bytes the   *)
(* function allocates and how far into the buffer it writes.               *)
(***************************************************************************)

\* The classes of characters the cases of the switch tell apart: the ones
\* with a two-character escape, a control character without one, any other.
CharClasses == {"quote", "backslash", "slash", "newline", "control", "plain"}

\* Every string of at most n characters.
StringsUpTo(n) == UNION {[1 .. k -> CharClasses] : k \in 0 .. n}

Max(a, b) == IF a > b THEN a ELSE b

\* What one character adds to the output: 6 for \uXXXX, 2 for an escape of
\* two characters, 1 for the character itself.
EscapedLength(c) ==
    IF c = "control" THEN 6
    ELSE IF c \in {"quote", "backslash", "slash", "newline"} THEN 2
    ELSE 1

\* How many bytes one character makes the function store at escaped + j:
\* snprintf stores the six characters and a terminating NUL.
BytesStored(c) == IF c = "control" THEN 7 ELSE EscapedLength(c)

\* The loop of json_escape_string from character i on: j is the length of
\* the output so far, high the number of bytes of the buffer written so far.
RECURSIVE EscapeLoop(_, _, _, _)
EscapeLoop(str, i, j, high) ==
    IF i > Len(str)
    THEN [j |-> j, high |-> Max(high, j + 1)]
    ELSE EscapeLoop(str, i + 1, j + EscapedLength(str[i]),
                    Max(high, j + BytesStored(str[i])))

\* json_escape_string on a string that is not NULL, the allocation
\* succeeding: the size of the buffer, the length of the result and the
\* number of bytes written from the start of the buffer.
JsonEscapeString(str) ==
    [allocated |-> (Len(str) * 2 + 1) % SizeModulus,
     length |-> EscapeLoop(str, 1, 0, 0).j,
     written |-> EscapeLoop(str, 1, 0, 0).high]

\* One call of json_escape_string; NULL is returned when malloc fails.
EscapeCall ==
    /\ calc.op = "input"
    /\ \E allocated \in BOOLEAN :
         calc' = IF allocated
                 THEN [calc EXCEPT !.op = "escaped", !.out = JsonEscapeString(calc.str)]
                 ELSE [calc EXCEPT !.op = "failed"]
    /\ UNCHANGED <<fmt, sink, prof>>
    /\ UNCHANGED <<poolVars, monVars, snapVars>>

EscapeInit ==
    /\ \E str \in StringsUpTo(MaxEscapeLen) :
         calc = [op |-> "input", str |-> str,
                 out |-> [allocated |-> 0, length |-> 0, written |-> 0]]
    \* nothing else is part of this specification
    /\ pool = EventBufferPoolCreate(1)
    /\ pool_ret = NULL
    /\ pool_warn = "none"
    /\ pool_call = [op |-> "create", arg |-> NULL]
    /\ pool_hist = << >>
    /\ held = {}
    /\ pc = "start"
    /\ shutdown_requested = FALSE
    /\ now = 0
    /\ duration = 0
    /\ start_time = 0
    /\ shutdown_start = 0
    /\ ret = 0
    /\ mgr = NoManager
    /\ rings = [k \in Probes |-> << >>]
    /\ quota = 0
    /\ submitted = 0
    /\ emitted = << >>
    /\ batch_log = << >>
    /\ loop_ctx = [events_processed |-> 0, events_filtered |-> 0]
    /\ interrupts = 0
    /\ gap = "first"
    /\ path = "none"
    /\ snap = [pc |-> "idle"]
    /\ fmt = [pc |-> "idle"]
    /\ sink = << >>
    /\ prof = [pc |-> "idle"]

EscapeNext == EscapeCall

SpecEscape == EscapeInit /\ [][EscapeNext]_vars

(***************************************************************************)
(* The profile command: execute_profile_command (main.c) from the loading  *)
(* of the probes on.  The target process was found in the process          *)
(* filesystem before; the eBPF manager and the profile manager are not in  *)
(* the sources and answer as the driver expects them to.                   *)
(***************************************************************************)

\* What one poll can return: an error, an interruption, no event, events.
PollResults == {-5, -EINTR, 0, 1}

\* The profiling loop that goes on polling when the target is gone.
ProfileLoopBodyIgnoresExit ==
    /\ prof.pc = "loop_poll"
    /\ \E r \in PollResults, tick \in 0 .. 1 :
         LET t == Min(prof.now + tick, MaxTime)
         IN  prof' =
               IF PollFailed(r)
               THEN [prof EXCEPT !.ret = r, !.now = t, !.pc = "drain_test",
                                 !.path = "poll_error"]
               ELSE IF t - prof.start_time >= prof.duration
               THEN [prof EXCEPT !.ret = r, !.now = t, !.pc = "drain_test",
                                 !.path = "duration"]
               ELSE [prof EXCEPT !.ret = r, !.now = t, !.pc = "loop_test"]
    /\ UNCHANGED <<fmt, sink, calc>>
    /\ UNCHANGED <<poolVars, monVars, snapVars>>

\* ebpf_manager_load_programs and the test of its result.
ProfileLoad ==
    /\ prof.pc = "load"
    /\ \E loaded \in BOOLEAN :
         prof' = IF loaded
                 THEN [prof EXCEPT !.ret = 0, !.pc = "attach"]
                 ELSE [prof EXCEPT !.ret = EXIT_BPF_ERROR, !.pc = "cleanup",
                                   !.path = "load_failure"]
    /\ UNCHANGED <<fmt, sink, calc>>
    /\ UNCHANGED <<poolVars, monVars, snapVars>>

\* ebpf_manager_attach_programs, the test of its result, and the reading of
\* start_time.
ProfileAttach ==
    /\ prof.pc = "attach"
    /\ \E attached \in BOOLEAN :
         prof' = IF attached
                 THEN [prof EXCEPT !.ret = 0, !.pc = "loop_test",
                                   !.start_time = prof.now]
                 ELSE [prof EXCEPT !.ret = EXIT_BPF_ERROR, !.pc = "cleanup",
                                   !.path = "attach_failure"]
    /\ UNCHANGED <<fmt, sink, calc>>
    /\ UNCHANGED <<poolVars, monVars, snapVars>>

\* The test of the profiling loop: while (!is_shutdown_requested()).
ProfileLoopTest ==
    /\ prof.pc = "loop_test"
    /\ prof' = IF prof.shutdown
               THEN [prof EXCEPT !.pc = "drain_test", !.path = "shutdown"]
               ELSE [prof EXCEPT !.pc = "loop_poll"]
    /\ UNCHANGED <<fmt, sink, calc>>
    /\ UNCHANGED <<poolVars, monVars, snapVars>>

\* The body of the profiling loop: one poll and the test of its result, the
\* look for the target in the process filesystem, the test of the duration.
ProfileLoopBody ==
    /\ prof.pc = "loop_poll"
    /\ \E r \in PollResults, tick \in 0 .. 1 :
         LET t == Min(prof.now + tick, MaxTime)
         IN  prof' =
               IF PollFailed(r)
               THEN [prof EXCEPT !.ret = r, !.now = t, !.pc = "drain_test",
                                 !.path = "poll_error"]
               ELSE IF ~prof.alive
               THEN [prof EXCEPT !.ret = r, !.now = t, !.pc = "drain_test",
                                 !.process_exited = TRUE, !.path = "exited"]
               ELSE IF t - prof.start_time >= prof.duration
               THEN [prof EXCEPT !.ret = r, !.now = t, !.pc = "drain_test",
                                 !.path = "duration"]
               ELSE [prof EXCEPT !.ret = r, !.now = t, !.pc = "loop_test"]
    /\ UNCHANGED <<fmt, sink, calc>>
    /\ UNCHANGED <<poolVars, monVars, snapVars>>

\* if (is_shutdown_requested() || process_exited): the remaining events are
\* processed for at most one second.
ProfileDrainTest ==
    /\ prof.pc = "drain_test"
    /\ prof' = IF prof.shutdown \/ prof.process_exited
               THEN [prof EXCEPT !.pc = "drain_loop", !.shutdown_start = prof.now]
               ELSE [prof EXCEPT !.pc = "finalize"]
    /\ UNCHANGED <<fmt, sink, calc>>
    /\ UNCHANGED <<poolVars, monVars, snapVars>>

\* One turn of the drain loop: the test of the second, then one poll.
ProfileDrainLoop ==
    /\ prof.pc = "drain_loop"
    /\ IF DrainOpen(prof.now, prof.shutdown_start)
       THEN \E r \in PollResults, tick \in 0 .. 1 :
              prof' = [prof EXCEPT !.ret = r,
                                   !.now = Min(prof.now + tick, MaxTime),
                                   !.pc = IF PollFailed(r) \/ r = 0
                                          THEN "finalize" ELSE "drain_loop"]
       ELSE prof' = [prof EXCEPT !.pc = "finalize"]
    /\ UNCHANGED <<fmt, sink, calc>>
    /\ UNCHANGED <<poolVars, monVars, snapVars>>

\* profile_manager_finalize_profile, output_formatter_write_profile on the
\* profile it returned, the statistics, and ret = EXIT_SUCCESS.
ProfileFinalize ==
    /\ prof.pc = "finalize"
    /\ \E built \in BOOLEAN :
         /\ prof' = [prof EXCEPT !.profile = IF built THEN "built" ELSE "null",
                                 !.ret = EXIT_SUCCESS,
                                 !.pc = "cleanup"]
         /\ sink' = IF built THEN Append(sink, <<"profile">>) ELSE sink
    /\ UNCHANGED <<fmt, calc>>
    /\ UNCHANGED <<poolVars, monVars, snapVars>>

\* The cleanup label; return ret.
ProfileCleanup ==
    /\ prof.pc = "cleanup"
    /\ prof' = [prof EXCEPT !.pc = "stopped"]
    /\ UNCHANGED <<fmt, sink, calc>>
    /\ UNCHANGED <<poolVars, monVars, snapVars>>

\* SIGINT or SIGTERM arrives: the handler sets the shutdown flag.
ProfileSignal ==
    /\ prof.pc # "stopped"
    /\ ~prof.shutdown
    /\ prof' = [prof EXCEPT !.shutdown = TRUE]
    /\ UNCHANGED <<fmt, sink, calc>>
    /\ UNCHANGED <<poolVars, monVars, snapVars>>

\* The target process exits: its entry leaves the process filesystem.
ProfileTargetExits ==
    /\ prof.pc # "stopped"
    /\ prof.alive
    /\ prof' = [prof EXCEPT !.alive = FALSE]
    /\ UNCHANGED <<fmt, sink, calc>>
    /\ UNCHANGED <<poolVars, monVars, snapVars>>

ProfileInit ==
    /\ \E d \in 1 .. (MaxDuration + 1) :
         prof = [pc |-> "load", duration |-> d, now |-> 0, start_time |-> 0,
                 shutdown_start |-> 0, shutdown |-> FALSE, alive |-> TRUE,
                 process_exited |-> FALSE, ret |-> EXIT_SUCCESS, path |-> "none",
                 profile |-> "none"]
    /\ sink = << >>
    /\ calc = [op |-> "idle"]
    \* nothing else is part of this specification
    /\ pool = EventBufferPoolCreate(1)
    /\ pool_ret = NULL
    /\ pool_warn = "none"
    /\ pool_call = [op |-> "create", arg |-> NULL]
    /\ pool_hist = << >>
    /\ held = {}
    /\ pc = "start"
    /\ shutdown_requested = FALSE
    /\ now = 0
    /\ duration = 0
    /\ start_time = 0
    /\ shutdown_start = 0
    /\ ret = 0
    /\ mgr = NoManager
    /\ rings = [k \in Probes |-> << >>]
    /\ quota = 0
    /\ submitted = 0
    /\ emitted = << >>
    /\ batch_log = << >>
    /\ loop_ctx = [events_processed |-> 0, events_filtered |-> 0]
    /\ interrupts = 0
    /\ gap = "first"
    /\ path = "none"
    /\ snap = [pc |-> "idle"]
    /\ fmt = [pc |-> "idle"]

ProfileNext ==
    \/ ProfileLoad
    \/ ProfileAttach
    \/ ProfileLoopTest
    \/ ProfileLoopBody
    \/ ProfileDrainTest
    \/ ProfileDrainLoop
    \/ ProfileFinalize
    \/ ProfileCleanup
    \/ ProfileSignal
    \/ ProfileTargetExits

SpecProfile == ProfileInit /\ [][ProfileNext]_vars

(***************************************************************************)
(* extract_library_name called on its own (event_processor.c).  A string   *)
(* argument is << >> for NULL and <<s>> for the string s, which may be the *)
(* empty string << >>.                                                     *)
(***************************************************************************)

\* The arguments: NULL, the empty string, every path of the tokens.
LibraryPathArguments ==
    { << >>, << << >> >> } \cup {<<p>> : p \in TokenPaths(LibTokens, MaxLibPathLen)}

\* extract_library_name with its two failures: the NULL argument and the
\* malloc of the name.
ExtractLibraryNameCall(library_path, allocated) ==
    IF library_path = << >> THEN << >>
    ELSE IF ~allocated THEN << >>
    ELSE << ExtractLibraryName(library_path[1]) >>

LibNameCall ==
    /\ calc.op = "path"
    /\ \E allocated \in BOOLEAN :
         calc' = [calc EXCEPT !.op = "named",
                              !.allocated = allocated,
                              !.library_name =
                                  ExtractLibraryNameCall(calc.library_path, allocated)]
    /\ UNCHANGED <<fmt, sink, prof>>
    /\ UNCHANGED <<poolVars, monVars, snapVars>>

LibNameInit ==
    /\ \E library_path \in LibraryPathArguments :
         calc = [op |-> "path", library_path |-> library_path,
                 allocated |-> FALSE, library_name |-> << >>]
    \* nothing else is part of this specification
    /\ pool = EventBufferPoolCreate(1)
    /\ pool_ret = NULL
    /\ pool_warn = "none"
    /\ pool_call = [op |-> "create", arg |-> NULL]
    /\ pool_hist = << >>
    /\ held = {}
    /\ pc = "start"
    /\ shutdown_requested = FALSE
    /\ now = 0
    /\ duration = 0
    /\ start_time = 0
    /\ shutdown_start = 0
    /\ ret = 0
    /\ mgr = NoManager
    /\ rings = [k \in Probes |-> << >>]
    /\ quota = 0
    /\ submitted = 0
    /\ emitted = << >>
    /\ batch_log = << >>
    /\ loop_ctx = [events_processed |-> 0, events_filtered |-> 0]
    /\ interrupts = 0
    /\ gap = "first"
    /\ path = "none"
    /\ snap = [pc |-> "idle"]
    /\ fmt = [pc |-> "idle"]
    /\ sink = << >>
    /\ prof = [pc |-> "idle"]

LibNameNext == LibNameCall

SpecLibName == LibNameInit /\ [][LibNameNext]_vars

(***************************************************************************)
(* The timestamps: format_timestamp_iso8601 (output_formatter.c), which    *)
(* formats the time of an event, and the generated_at of the snapshot      *)
(* (execute_snapshot_command, main.c).  A string is the sequence of its    *)
(* characters.  A time in nanoseconds is given as its whole seconds and    *)
(* the nanoseconds within the second.                                      *)
(***************************************************************************)

NS_PER_SEC == 1000000000
SECONDS_PER_DAY == 86400

\* The times formatted: the epoch, the end of a minute and of a day, the
\* leap day of 2000, the first second of 2021, the last second of 2026 and
\* of a 32-bit time_t.
ClockSeconds == {0, 59, 86399, 951782400, 1609459200, 1798761599, 2147483647}
ClockNanos == {0, 999, 1000, 123456789, 999999000, 999999999}

DigitChar(d) == <<"0", "1", "2", "3", "4", "5", "6", "7", "8", "9">>[d + 1]

\* printf %d of a number that is not negative.
RECURSIVE Decimal(_)
Decimal(n) ==
    IF n < 10 THEN <<DigitChar(n)>>
    ELSE Decimal(n \div 10) \o <<DigitChar(n % 10)>>

\* printf %0wd and %0wlu: zeros in front up to the width w, never a cut.
RECURSIVE ZeroPadded(_, _)
ZeroPadded(digits, w) ==
    IF Len(digits) >= w THEN digits ELSE ZeroPadded(<<"0">> \o digits, w)

\* gmtime_r: the calendar date and the time of day of a count of seconds
\* since the epoch, in UTC.
GmTime(seconds) ==
    LET days == seconds \div SECONDS_PER_DAY
        rest == seconds % SECONDS_PER_DAY
        z    == days + 719468
        era  == z \div 146097
        doe  == z - era * 146097
        yoe  == (doe - doe \div 1460 + doe \div 36524 - doe \div 146096) \div 365
        doy  == doe - (365 * yoe + yoe \div 4 - yoe \div 100)
        mp   == (5 * doy + 2) \div 153
        mon  == IF mp < 10 THEN mp + 3 ELSE mp - 9
        year == yoe + era * 400 + (IF mon <= 2 THEN 1 ELSE 0)
    IN  [tm_year |-> year - 1900,
         tm_mon  |-> mon - 1,
         tm_mday |-> doy - (153 * mp + 2) \div 5 + 1,
         tm_hour |-> rest \div 3600,
         tm_min  |-> (rest % 3600) \div 60,
         tm_sec  |-> rest % 60]

\* "%04d-%02d-%02dT%02d:%02d:%02d" of a broken-down time.
DateAndTime(tm_info) ==
    ZeroPadded(Decimal(tm_info.tm_year + 1900), 4) \o <<"-">>
      \o ZeroPadded(Decimal(tm_info.tm_mon + 1), 2) \o <<"-">>
      \o ZeroPadded(Decimal(tm_info.tm_mday), 2) \o <<"T">>
      \o ZeroPadded(Decimal(tm_info.tm_hour), 2) \o <<":">>
      \o ZeroPadded(Decimal(tm_info.tm_min), 2) \o <<":">>
      \o ZeroPadded(Decimal(tm_info.tm_sec), 2)

\* format_timestamp_iso8601: << >> is NULL, <<s>> the string s.
FormatTimestampIso8601(timestamp_ns, converted) ==
    LET seconds      == timestamp_ns.sec
        microseconds == (timestamp_ns.nsec % NS_PER_SEC) \div 1000
    IN  IF ~converted THEN << >>
        ELSE << DateAndTime(GmTime(seconds)) \o <<".">>
                  \o ZeroPadded(Decimal(microseconds), 6) \o <<"Z">> >>

\* The generated_at of the snapshot.
SnapshotGeneratedAt(time_now, converted) ==
    IF converted
    THEN DateAndTime(GmTime(time_now)) \o <<"Z">>
    ELSE <<"u", "n", "k", "n", "o", "w", "n">>

\* An event is given its timestamp and written: the "timestamp" field is
\* the string, or is null or left out when there is none.
TimestampOfEvent ==
    /\ calc.op = "clock"
    /\ \E converted \in BOOLEAN :
         LET timestamp == FormatTimestampIso8601(calc.clock, converted)
         IN  /\ calc' = [calc EXCEPT !.op = "event"]
             /\ sink' = IF timestamp = << >> THEN sink
                        ELSE Append(sink, timestamp[1])
    /\ UNCHANGED <<fmt, prof>>
    /\ UNCHANGED <<poolVars, monVars, snapVars>>

\* A snapshot is given its generated_at and written.
TimestampOfSnapshot ==
    /\ calc.op = "clock"
    /\ \E converted \in BOOLEAN :
         /\ calc' = [calc EXCEPT !.op = "snapshot"]
         /\ sink' = Append(sink, SnapshotGeneratedAt(calc.clock.sec, converted))
    /\ UNCHANGED <<fmt, prof>>
    /\ UNCHANGED <<poolVars, monVars, snapVars>>

TimestampInit ==
    /\ \E sec \in ClockSeconds, nsec \in ClockNanos :
         calc = [op |-> "clock", clock |-> [sec |-> sec, nsec |-> nsec]]
    /\ sink = << >>
    \* nothing else is part of this specification
    /\ pool = EventBufferPoolCreate(1)
    /\ pool_ret = NULL
    /\ pool_warn = "none"
    /\ pool_call = [op |-> "create", arg |-> NULL]
    /\ pool_hist = << >>
    /\ held = {}
    /\ pc = "start"
    /\ shutdown_requested = FALSE
    /\ now = 0
    /\ duration = 0
    /\ start_time = 0
    /\ shutdown_start = 0
    /\ ret = 0
    /\ mgr = NoManager
    /\ rings = [k \in Probes |-> << >>]
    /\ quota = 0
    /\ submitted = 0
    /\ emitted = << >>
    /\ batch_log = << >>
    /\ loop_ctx = [events_processed |-> 0, events_filtered |-> 0]
    /\ interrupts = 0
    /\ gap = "first"
    /\ path = "none"
    /\ snap = [pc |-> "idle"]
    /\ fmt = [pc |-> "idle"]
    /\ prof = [pc |-> "idle"]

TimestampNext ==
    \/ TimestampOfEvent
    \/ TimestampOfSnapshot

SpecTimestamp == TimestampInit /\ [][TimestampNext]_vars

(***************************************************************************)
(* Claims about the pool (checked under SpecPool).                         *)
(***************************************************************************)
Occurs(tag) == \E i \in 1 .. Len(pool_hist) : pool_hist[i] = tag

\* C1: after any sequence of acquire and release calls, acquires on an
\* exhausted pool, double releases and releases of foreign pointers
\* included, in_use_count never exceeds capacity.
C1_InUseCountWithinCapacity == pool.in_use_count <= pool.capacity

\* C1 witness: a full pool that has seen an acquire on the exhausted pool, a
\* double release and a release of a foreign pointer.
C1_Witness ==
    /\ Occurs("acq_null") /\ Occurs("rel_double") /\ Occurs("rel_foreign")
    /\ pool.in_use_count = pool.capacity

\* C2: for a pool of any capacity N, N consecutive acquires succeed and the
\* next returns nothing; an acquire that follows a release succeeds; and when
\* every acquired record has been released, in_use_count is 0.
C2_ExhaustionAndReuse ==
    /\ (\A i \in 1 .. Len(pool_hist) : pool_hist[i] \in {"acq", "acq_null"})
          => \A i \in 1 .. Len(pool_hist) :
                 (pool_hist[i] = "acq") <=> (i <= pool.capacity)
    /\ \A i \in 2 .. Len(pool_hist) :
          (pool_hist[i - 1] = "rel" /\ pool_hist[i] \in {"acq", "acq_null"})
              => pool_hist[i] = "acq"
    /\ (held = {}) => (pool.in_use_count = 0)

\* C2 witness: the scenario run to its end on a pool of capacity N >= 2: N
\* acquires, a failed acquire, a release, an acquire, then N releases.
C2_Witness ==
    LET n == pool.capacity
    IN  /\ n >= 2
        /\ Len(pool_hist) = 2 * n + 3
        /\ \A i \in 1 .. n : pool_hist[i] = "acq"
        /\ pool_hist[n + 1] = "acq_null"
        /\ pool_hist[n + 2] = "rel"
        /\ pool_hist[n + 3] = "acq"
        /\ \A i \in (n + 4) .. (2 * n + 3) : pool_hist[i] = "rel"
        /\ held = {}
        /\ pool.in_use_count = 0

\* Whether the pointer is no record of the pool's storage array.
ForeignPointer(p, event) ==
    event < p.events_base \/ event >= p.events_base + p.capacity

\* C3: a release of a record that is not in use, or of a pointer that is no
\* record of the storage array, is detected (warned about) and leaves the
\* free list, every in_use flag and in_use_count as they were.
C3_BadReleaseDetectedAndInert ==
    [][ ( /\ Len(pool_hist') = Len(pool_hist) + 1
          /\ pool_call'.op = "release"
          /\ pool_call'.arg # NULL
          /\ IF ForeignPointer(pool, pool_call'.arg) THEN TRUE
             ELSE ~pool.events[pool_call'.arg].in_use )
        => ( /\ pool' = pool
             /\ pool_warn' = IF ForeignPointer(pool, pool_call'.arg)
                             THEN "not_from_pool" ELSE "not_in_use" ) ]_vars

\* C3 witness: a pool with records in use and records free on which a double
\* release has just been rejected, after a foreign pointer was.
C3_Witness ==
    /\ Len(pool_hist) > 0
    /\ pool_hist[Len(pool_hist)] = "rel_double"
    /\ Occurs("rel_foreign")
    /\ pool.in_use_count > 0
    /\ pool.free_list # NULL

(***************************************************************************)
(* Claims about the monitor command (checked under SpecMonitor).           *)
(***************************************************************************)

EmittedInOrderWithinKind ==
    \A i, j \in 1 .. Len(emitted) :
        (i < j /\ emitted[i].kind = emitted[j].kind) => emitted[i].seq < emitted[j].seq

\* Two records of one kind have been emitted.
EmittedTwoOfOneKind ==
    \E i, j \in 1 .. Len(emitted) : i < j /\ emitted[i].kind = emitted[j].kind

\* The driver is in the Running state: in its main loop.
Running == pc \in {"loop_test", "loop_poll"}

\* C5: the driver leaves Running only when a shutdown has been requested,
\* when a poll has returned an unrecoverable error or when the duration has
\* elapsed; a poll that reports a signal interruption does not by itself
\* end Running.
C5_LeavesRunningOnlyFor ==
    [][ /\ (Running /\ ~Running')
            => \/ (pc = "loop_test" /\ shutdown_requested)
               \/ (pc = "loop_poll" /\ ret' < 0 /\ ret' # -EINTR)
               \/ (pc = "loop_poll" /\ duration > 0 /\ now' - start_time >= duration)
        /\ (pc = "loop_poll" /\ pc' # "loop_poll" /\ ret' = -EINTR
              /\ ~(duration > 0 /\ now' - start_time >= duration))
            => Running' ]_vars

\* C5 witness: a poll of the main loop has reported a signal interruption,
\* no shutdown is requested, and the driver is back at the test of its loop.
C5_Witness ==
    /\ pc = "loop_test"
    /\ ret = -EINTR
    /\ ~shutdown_requested

\* The driver is in the Draining state: in its drain loop.
Draining == pc \in {"drain_loop", "drain_poll"}

DrainEndedByEmptyPoll ==
    /\ pc = "finish"
    /\ path = "shutdown"
    /\ ret = 0
    /\ now - shutdown_start < 1

\* C7: a long-running loop tests the shutdown flag between two consecutive
\* units of its work: between two polls of the monitor's main loop, between
\* two per-PID scans of the snapshot's scan loop.
C7_FlagTestedBetweenUnits ==
    [][ ( \/ (pc = "loop_poll" /\ pc' # "loop_poll")
          \/ (snap.pc = "scan" /\ snap'.pc = "scan" /\ snap'.i = snap.i + 1) )
        => gap # "untested" ]_vars

\* C8: once a shutdown is requested while the monitor command is Running,
\* the command eventually drains, and eventually is Stopped, its probes
\* cleaned up, with the exit code of success.
C8_ShutdownLeadsToStopped ==
    /\ (shutdown_requested /\ Running) ~> Draining
    /\ (shutdown_requested /\ Running)
          ~> (pc = "stopped" /\ mgr.cleanup_calls = 1 /\ ret = EXIT_SUCCESS)

\* C8 witness: a run that was told to shut down in its main loop, after an
\* interrupted poll, is Stopped with success.
C8_Witness ==
    /\ pc = "stopped"
    /\ path = "shutdown"
    /\ interrupts > 0
    /\ ret = EXIT_SUCCESS
    /\ mgr.cleanup_calls = 1

\* The paths a run of the monitor command ends by once it has its manager.
EndPaths == {"load_failure", "attach_failure", "poll_error", "duration", "shutdown"}

\* C9: in every run of the monitor command that ends by a load failure, an
\* attach failure, an unrecoverable poll error, the duration or a shutdown,
\* the probes are loaded exactly once and released exactly once, and the
\* manager's cleanup has been invoked when the command is Stopped; no run
\* loads or cleans up twice.
C9_ProbesAcquiredAndReleasedOnce ==
    /\ mgr.load_calls <= 1
    /\ mgr.cleanup_calls <= 1
    /\ (pc = "stopped" /\ path \in EndPaths)
          => /\ mgr.load_calls = 1
             /\ mgr.cleanup_calls = 1
             /\ mgr.loaded = {}
             /\ mgr.attached = {}

\* C9 witness: a run that loaded every probe and attached none is Stopped.
C9_Witness ==
    /\ pc = "stopped"
    /\ path = "attach_failure"
    /\ mgr.load_calls = 1
    /\ mgr.cleanup_calls = 1

\* The position of a stage in an order of stages (0: not in it).
Rank(order, stage) ==
    IF \E i \in 1 .. Len(order) : order[i] = stage
    THEN CHOOSE i \in 1 .. Len(order) : order[i] = stage
    ELSE 0

\* Whether the stages of a log ran in the given order.
RanInOrder(log, order) ==
    \A i, j \in 1 .. Len(log) :
        i < j => (Rank(order, log[i]) > 0 /\ Rank(order, log[i]) < Rank(order, log[j]))

\* C10, as stated: every event goes through the stages in the order decode,
\* kind-specific acceptance, enrich, classify, redact, match filters, emit,
\* release; no stage runs before a stage that precedes it in this order.
C10_StagesInStatedOrder ==
    \A k \in 1 .. Len(batch_log) :
        RanInOrder(batch_log[k],
                   <<"decode", "accept", "enrich", "classify", "redact", "match",
                     "emit", "release">>)

\* C10, amended: every event goes through the stages in the order decode,
\* enrich, classify, kind-specific acceptance, redact, match filters, emit,
\* release; no stage runs before a stage that precedes it in this order.
C10_StagesInCodeOrder ==
    \A k \in 1 .. Len(batch_log) :
        RanInOrder(batch_log[k],
                   <<"decode", "enrich", "classify", "accept", "redact", "match",
                     "emit", "release">>)

\* C10 witness: a poll has taken an event through all eight stages and has
\* rejected another one at its acceptance test.
C10_Witness ==
    /\ \E k \in 1 .. Len(batch_log) : Len(batch_log[k]) = 8
    /\ \E k \in 1 .. Len(batch_log) :
          /\ batch_log[k][Len(batch_log[k]) - 1] = "accept"
          /\ batch_log[k][Len(batch_log[k])] = "release"

\* C18: a probe that fails to load or to attach never aborts the command:
\* the load step goes on to the attach step exactly when at least one
\* program loaded, and the attach step enters the main loop (Running)
\* exactly when at least one program is attached; the command never runs
\* its loops without a usable probe.
C18_PartialFailureNotFatal ==
    [][ /\ pc = "load" => ((pc' = "attach") <=> (mgr'.loaded # {}))
        /\ pc = "load" /\ pc' # "load" /\ pc' # "attach"
              => (pc' = "cleanup" /\ ret' = EXIT_BPF_ERROR)
        /\ pc = "attach" => ((pc' = "loop_test") <=> (mgr'.attached # {}))
        /\ pc = "attach" /\ pc' # "attach" /\ pc' # "loop_test"
              => (pc' = "cleanup" /\ ret' = EXIT_BPF_ERROR)
        /\ pc' \in {"loop_test", "loop_poll", "drain_test", "drain_loop", "drain_poll"}
              => mgr'.attached # {} ]_vars

\* C18 witness: every program loaded, only one of them could be attached,
\* and the command is polling in its main loop.
C18_Witness ==
    /\ pc = "loop_poll"
    /\ mgr.loaded = Probes
    /\ mgr.attached = {"process_exit"}

\* Only one program loaded, and the command is in its main loop.
RunningAfterPartialLoad ==
    /\ pc = "loop_poll"
    /\ mgr.loaded = {"process_exit"}
    /\ mgr.attached = {"process_exit"}

\* No program loaded: the command goes to its cleanup with the eBPF error.
NoProbeLoaded ==
    /\ pc = "cleanup"
    /\ path = "load_failure"
    /\ mgr.loaded = {}
    /\ ret = EXIT_BPF_ERROR

(***************************************************************************)
(* Claims about the output formatter (checked under SpecFormatter).        *)
(***************************************************************************)

\* How many tokens of the sink are the given punctuation.
CountToken(s, t) == Cardinality({i \in 1 .. Len(s) : s[i][1] = t})

\* C11: finalization of an array-mode formatter is idempotent: however many
\* times it is finalized, the finalization done by the destruction
\* included, the closing ] is written to the sink exactly once.
C11_ArrayClosedExactlyOnce ==
    (fmt.pc \in {"live", "done"} /\ fmt.self.format = "json_array" /\ fmt.finalized >= 1)
        => CountToken(sink, "]") = 1

\* An array-mode formatter that was never finalized explicitly has been
\* destroyed: its array is closed once.
ArrayClosedOnceByDestroy ==
    (fmt.pc = "done" /\ fmt.destroyed /\ fmt.self.format = "json_array"
       /\ fmt.finalized = 1)
        => CountToken(sink, "]") = 1

\* Where the JSON object that starts at token i of s ends: the index of its
\* closing brace, or 0 when no well-formed object starts there.
ObjectEnd(s, i) ==
    IF i > Len(s) \/ s[i][1] # "{" THEN 0
    ELSE LET after == {j \in (i + 1) .. Len(s) : s[j][1] # "field"}
         IN  IF after = {} THEN 0
             ELSE LET j == CHOOSE x \in after : \A y \in after : x <= y
                  IN  IF s[j][1] = "}" /\ \A k \in (i + 1) .. (j - 1) : s[k][4] = (k < j - 1)
                      THEN j ELSE 0

\* The elements of a JSON array from token i on, n of them read so far: how
\* many there are when the rest is well formed and ends the text, else -1.
RECURSIVE ArrayElements(_, _, _)
ArrayElements(s, i, n) ==
    IF ObjectEnd(s, i) = 0 \/ ObjectEnd(s, i) + 1 > Len(s) THEN -1
    ELSE IF s[ObjectEnd(s, i) + 1][1] = "]"
    THEN (IF ObjectEnd(s, i) + 1 = Len(s) THEN n + 1 ELSE -1)
    ELSE IF s[ObjectEnd(s, i) + 1][1] = ","
    THEN ArrayElements(s, ObjectEnd(s, i) + 2, n + 1)
    ELSE -1

\* The text parsed as one JSON array of objects: the number of its elements,
\* or -1 when it is no JSON array.
ParsesAsArray(s) ==
    IF Len(s) < 2 \/ s[1][1] # "[" THEN -1
    ELSE IF s[2][1] = "]" THEN (IF Len(s) = 2 THEN 0 ELSE -1)
    ELSE ArrayElements(s, 2, 0)

\* C12: in array mode, constructing the formatter, writing n events, n >= 0,
\* and finalizing once gives a document that parses as a JSON array of n
\* elements; with n = 0 it is [ and ] with nothing between them.
C12_ArrayDocumentParses ==
    ( /\ fmt.pc \in {"live", "done"}
      /\ fmt.self.format = "json_array"
      /\ fmt.finalized = 1
      /\ fmt.written = fmt.writes
      /\ sink[Len(sink)][1] = "]" )
        => /\ ParsesAsArray(sink) = fmt.written
           /\ (fmt.written = 0 => sink = << <<"[">>, <<"]">> >>)

\* C12 witness: an array of two events has been written and finalized by the
\* destruction of the formatter.
C12_Witness ==
    /\ fmt.pc = "done"
    /\ fmt.destroyed
    /\ fmt.self.format = "json_array"
    /\ fmt.finalized = 1
    /\ fmt.written = 2
    /\ ParsesAsArray(sink) = 2

\* The empty array has been written and finalized.
EmptyArrayWritten ==
    /\ fmt.pc = "done"
    /\ fmt.self.format = "json_array"
    /\ fmt.finalized = 1
    /\ fmt.writes = 0
    /\ ParsesAsArray(sink) = 0

\* The fields every event object is specified to start with.
CommonFields == <<"event_type", "timestamp", "pid", "uid", "process", "exe">>

\* The keys of the object that starts at token i of the sink, in order.
RECURSIVE ObjectKeys(_, _)
ObjectKeys(s, i) ==
    IF i + 1 > Len(s) \/ s[i + 1][1] # "field" THEN << >>
    ELSE <<s[i + 1][2]>> \o ObjectKeys(s, i + 1)

\* The keys start with the common fields, in their order.
StartsWithCommon(keys) ==
    /\ Len(keys) >= Len(CommonFields)
    /\ \A k \in 1 .. Len(CommonFields) : keys[k] = CommonFields[k]

\* Where the last object of the sink starts (0: there is none).
LastObjectStart(s) ==
    LET starts == {i \in 1 .. Len(s) : s[i][1] = "{"}
    IN  IF starts = {} THEN 0 ELSE CHOOSE i \in starts : \A j \in starts : j <= i

\* C19: every emitted event object, of every kind and in every output
\* shape, starts with the common fields event_type, timestamp, pid, uid,
\* process, exe in that order, followed by the fields of its kind; a string
\* field without a value is present, as null.
C19_CommonFieldsInOrder ==
    (fmt.pc \in {"live", "done"} /\ fmt.writes >= 1 /\ fmt.ret = 0 /\ fmt.finalized = 0)
        => LET keys == ObjectKeys(sink, LastObjectStart(sink))
           IN  /\ StartsWithCommon(keys)
               /\ keys = [k \in 1 .. Len(keys) |->
                            (CommonFields \o [j \in 1 .. Len(OwnFields(fmt.last)) - 1 |->
                                                OwnFields(fmt.last)[j + 1][1]])[k]]

\* What the writers do print: every kind but process_exit starts with the
\* common fields whenever the timestamp has a value or the shape is not the
\* compact one.
CommonFieldsButExit ==
    ( /\ fmt.pc \in {"live", "done"} /\ fmt.writes >= 1 /\ fmt.ret = 0 /\ fmt.finalized = 0
      /\ fmt.last.event_type # "process_exit"
      /\ ~(fmt.self.format = "json_stream" /\ "timestamp" \in fmt.last.nulls) )
        => StartsWithCommon(ObjectKeys(sink, LastObjectStart(sink)))

\* A process_exit object never has the field exe.
ExitHasNoExe ==
    ( /\ fmt.pc \in {"live", "done"} /\ fmt.writes >= 1 /\ fmt.ret = 0 /\ fmt.finalized = 0
      /\ fmt.last.event_type = "process_exit" )
        => \A i \in 1 .. Len(sink) :
              i > LastObjectStart(sink) /\ sink[i][1] = "field" => sink[i][2] # "exe"

\* A process_exit event has been written.
ExitWritten ==
    /\ fmt.pc = "live" /\ fmt.ret = 0 /\ fmt.writes >= 1
    /\ fmt.last.event_type = "process_exit"

\* C20: the formatter never closes a sink it did not open: on every exit
\* path standard output is closed neither by the formatter nor by the
\* driver, and the only sink ever closed is the file the driver opened from
\* the file name the user gave.
C20_OnlyOwnedSinkClosed ==
    /\ "stdout" \notin fmt.closed
    /\ fmt.closed \subseteq fmt.opened
    /\ fmt.closed # {} => fmt.output_file_arg
    /\ "formatter" \notin fmt.closed_by

\* C20 witness: a run that wrote to standard output has destroyed its
\* formatter and finished with nothing closed.
C20_Witness ==
    /\ fmt.pc = "done"
    /\ fmt.destroyed
    /\ fmt.output = "stdout"
    /\ fmt.writes >= 1
    /\ fmt.closed = {}

\* A run that wrote to the file named by the user has closed it.
OwnedFileClosed ==
    /\ fmt.pc = "done"
    /\ fmt.destroyed
    /\ fmt.output = "file"
    /\ fmt.closed = {"file"}
    /\ fmt.closed_by = {"driver"}

\* The file is closed too when the formatter could not be created.
OwnedFileClosedWithoutFormatter ==
    /\ fmt.pc = "done"
    /\ ~fmt.destroyed
    /\ fmt.closed = {"file"}

(***************************************************************************)
(* Claims about path redaction (checked under SpecRedact).                 *)
(***************************************************************************)

\* C13: redaction is idempotent: for every path p, with redaction enabled,
\* redact(redact(p)) = redact(p).
C13_RedactIdempotent ==
    (calc.op = "twice" /\ calc.redact_enabled /\ ~calc.first_null /\ ~calc.second_null)
        => calc.second = calc.first

\* Redaction is idempotent on every path outside the home of root.
RedactIdempotentOutsideRoot ==
    ( /\ calc.op = "twice" /\ calc.redact_enabled
      /\ ~calc.first_null /\ ~calc.second_null
      /\ ~HasPrefix(calc.path, <<"/", "root", "/">>)
      /\ calc.path # <<"/", "root">> )
        => calc.second = calc.first

\* A path under /root has been redacted twice.
RootPathRedactedTwice ==
    /\ calc.op = "twice" /\ calc.redact_enabled
    /\ ~calc.first_null /\ ~calc.second_null
    /\ calc.path = <<"/", "root", "/", "key">>
    /\ calc.first = <<"/", "home", "/", "ROOT", "/", "key">>
    /\ calc.second = <<"/", "home", "/", "USER", "/", "key">>

(***************************************************************************)
(* Claims about the event filters (checked under SpecFilter).              *)
(***************************************************************************)

\* The set that holds the one filter f.
Singleton(f) == FilterSetAdd(FilterSetCreate, f)

\* C14: a set of two filters matches an event exactly when each of the two
\* filters alone matches it, in whichever order the two were added.
C14_SetIsConjunction ==
    (calc.op = "matched" /\ Len(calc.added) = 2)
        => /\ calc.result = ( /\ FilterSetMatches(Singleton(calc.added[1]), calc.event)
                              /\ FilterSetMatches(Singleton(calc.added[2]), calc.event) )
           /\ calc.result = FilterSetMatches(
                                FilterSetAdd(Singleton(calc.added[2]), calc.added[1]),
                                calc.event)

\* C14 witness: two filters of different types have been added, the first
\* one matches the event alone, the second does not, and the set does not.
C14_Witness ==
    /\ calc.op = "matched"
    /\ Len(calc.added) = 2
    /\ calc.added[1].type # calc.added[2].type
    /\ FilterSetMatches(Singleton(calc.added[1]), calc.event)
    /\ ~FilterSetMatches(Singleton(calc.added[2]), calc.event)
    /\ ~calc.result

\* Two filters that both match alone make a set that matches.
BothFiltersMatch ==
    /\ calc.op = "matched"
    /\ Len(calc.added) = 2
    /\ calc.added[1].type = "library"
    /\ calc.added[2].type = "file_path"
    /\ calc.result

\* C15: the empty filter set matches every event, whatever its members and
\* whichever of them are absent.
C15_EmptySetMatchesAll ==
    (calc.op = "matched" /\ calc.set.count = 0) => calc.result

\* C15 witness: an event with no string member at all has been matched
\* against the empty set.
C15_Witness ==
    /\ calc.op = "matched"
    /\ calc.set.count = 0
    /\ calc.adds = 0
    /\ calc.event.process = << >>
    /\ calc.event.library = << >>
    /\ calc.event.library_name = << >>
    /\ calc.event.file = << >>
    /\ calc.result

(***************************************************************************)
(* Claims about the acceptance test (checked under SpecAccept).            *)
(***************************************************************************)

\* The extensions of crypto files.
CryptoExtensions == {".crt", ".cer", ".pem", ".key", ".p12", ".pfx", ".jks", ".keystore"}

\* The path ends with one of the extensions, in either case.
HasCryptoExtension(p) ==
    /\ Len(p) >= 1
    /\ \/ p[Len(p)] \in CryptoExtensions
       \/ p[Len(p)] = ".PEM"

\* C16: no file_open event whose path has no recognized crypto extension,
\* and no lib_load event whose library is not one of the known crypto
\* libraries (its file name holds none of libssl, libcrypto, libgnutls,
\* libsodium, libnss3, libmbedtls), is ever emitted.
C16_OnlyCryptoArtifactsEmitted ==
    (calc.op = "done" /\ calc.emitted)
        => /\ calc.event.kind = "file_open" => HasCryptoExtension(calc.event.path)
           /\ calc.event.kind = "lib_load"
                 => \E name \in CryptoLibraryNames : StrStr(FileName(calc.event.path), name)

\* What the test does ensure: an emitted file_open has a crypto extension,
\* and the path of an emitted lib_load holds one of the names somewhere.
EmittedPathsPassTheTest ==
    (calc.op = "done" /\ calc.emitted)
        => /\ calc.event.kind = "file_open" => HasCryptoExtension(calc.event.path)
           /\ calc.event.kind = "lib_load"
                 => \E name \in CryptoLibraryNames : StrStr(calc.event.path, name)

\* A library that has the name of a crypto library in a directory of its
\* path only has been emitted.
ForeignLibraryEmitted ==
    /\ calc.op = "done"
    /\ calc.emitted
    /\ calc.event.kind = "lib_load"
    /\ calc.event.path = <<"lib", "ssl", "/", "foo">>
    /\ calc.library_name = <<"foo">>

\* A file without a crypto extension has been filtered out.
PlainFileFiltered ==
    /\ calc.op = "done"
    /\ calc.event.kind = "file_open"
    /\ calc.event.path = <<"/", "cert", ".txt">>
    /\ calc.matches
    /\ calc.filtered
    /\ ~calc.emitted

(***************************************************************************)
(* Claims about the ring buffers (checked under SpecRing).                 *)
(***************************************************************************)

\* The records waiting in all the ring buffers.
RECURSIVE RingTotal(_)
RingTotal(kinds) ==
    IF kinds = {} THEN 0
    ELSE LET k == CHOOSE x \in kinds : TRUE
         IN  Len(rings[k]) + RingTotal(kinds \ {k})

\* C17: when its ring buffer is full, a probe that cannot reserve space
\* drops the new record and returns without blocking, and the overflow
\* increments the drop counter: the counter is the number of records refused.
C17_OverflowCounted ==
    mgr.events_dropped = submitted - RingTotal(Probes)

\* What the probes do on overflow: the new record is lost, the records that
\* wait stay as they are, and the probe has returned (the submission is
\* counted).
OverflowDropsNewRecord ==
    [][ submitted' = submitted + 1
          /\ \A k \in Probes :
                /\ Len(rings'[k]) <= RingCapacity
                /\ Len(rings[k]) <= Len(rings'[k])
                /\ SubSeq(rings'[k], 1, Len(rings[k])) = rings[k] ]_vars

\* A probe has found its ring full and lost its record.
RingOverflowed ==
    /\ submitted = RingCapacity + 1
    /\ \E k \in Probes : Len(rings[k]) = RingCapacity
    /\ RingTotal(Probes) = RingCapacity

(***************************************************************************)
(* More claims about the pool (checked under SpecPool).                    *)
(***************************************************************************)

\* The records met by following next from the head of the free list, n
\* steps at most.
RECURSIVE FreeListWalk(_, _, _)
FreeListWalk(p, event, n) ==
    IF event = NULL \/ n = 0 THEN << >>
    ELSE <<event>> \o FreeListWalk(p, p.events[event].next, n - 1)

\* C29: after any sequence of pool operations the free list holds exactly
\* the records whose in_use flag is false, each of them once (it ends, and no
\* record in use is on it), and in_use_count is the number of records whose
\* in_use flag is true.
C29_FreeListIsTheFreeRecords ==
    LET walk == FreeListWalk(pool, pool.free_list, pool.capacity + 1)
    IN  /\ Len(walk) <= pool.capacity
        /\ \A i, j \in 1 .. Len(walk) : walk[i] = walk[j] => i = j
        /\ {walk[i] : i \in 1 .. Len(walk)}
              = {e \in PoolRecords(pool) : ~pool.events[e].in_use}
        /\ pool.in_use_count
              = Cardinality({e \in PoolRecords(pool) : pool.events[e].in_use})

\* C29 witness: records were released in another order than the free list
\* had them, a double release and a foreign release were refused, and the
\* pool has records on the free list and records in use.
C29_Witness ==
    /\ Occurs("rel_double") /\ Occurs("rel_foreign")
    /\ pool.capacity >= 3
    /\ pool.in_use_count = 1
    /\ pool.free_list # NULL
    /\ pool.free_list < pool.events[pool.free_list].next

(***************************************************************************)
(* More claims about the output formatter (checked under SpecFormatter).   *)
(***************************************************************************)

\* C28: a call of write_event that returns failure, as for an event whose
\* kind is none of the five known kinds, writes nothing to the sink and
\* leaves the first-event state of the formatter as it was.
C28_FailedWriteLeavesNoTrace ==
    [][ (fmt.pc = "live" /\ fmt'.writes = fmt.writes + 1 /\ fmt'.ret # 0)
          => (sink' = sink /\ fmt'.self = fmt.self) ]_vars

\* A write that fails for want of an event type does write nothing.
WriteWithoutTypeLeavesNoTrace ==
    [][ ( /\ fmt.pc = "live" /\ fmt'.writes = fmt.writes + 1
          /\ fmt'.last.event_type = "null" )
          => (fmt'.ret = -1 /\ sink' = sink /\ fmt'.self = fmt.self) ]_vars

\* An array whose first write failed on an unknown kind and whose second
\* write succeeded has been finalized: the document is no JSON array.
ArrayBrokenByFailedWrite ==
    /\ fmt.pc = "done"
    /\ fmt.self.format = "json_array"
    /\ fmt.finalized = 1
    /\ fmt.writes = 2
    /\ fmt.written = 1
    /\ sink[2] = <<"{">>
    /\ sink[3] = <<",">>
    /\ ParsesAsArray(sink) = -1

(***************************************************************************)
(* Claims about json_escape_string (checked under SpecEscape).             *)
(***************************************************************************)

\* C30: for every input string of length len, json_escape_string never
\* writes beyond the 2 * len + 1 bytes it allocates, strings of control
\* characters that become \uXXXX escapes included.
C30_WritesWithinAllocation ==
    calc.op = "escaped" => calc.out.written <= calc.out.allocated

\* Without a control character that has no short escape the buffer is
\* large enough.
WithinAllocationWithoutControl ==
    (calc.op = "escaped" /\ \A i \in 1 .. Len(calc.str) : calc.str[i] # "control")
        => calc.out.written <= calc.out.allocated

\* A string of one control character has been escaped: three bytes were
\* allocated and seven written.
ControlCharacterOverflows ==
    /\ calc.op = "escaped"
    /\ calc.str = <<"control">>
    /\ calc.out.allocated = 3
    /\ calc.out.written = 7

(***************************************************************************)
(* More claims about the monitor command (checked under SpecMonitor).      *)
(***************************************************************************)

\* C26: the monitor command returns the success exit code only when its
\* main loop ended because the duration elapsed or a shutdown was
\* requested; a run whose main loop ended on a poll error that is no
\* interruption returns another code.
C26_SuccessOnlyAfterCleanEnd ==
    (pc = "stopped" /\ ret = EXIT_SUCCESS) => path \in {"duration", "shutdown"}

\* A run that left its main loop for the duration or a shutdown returns
\* success, and a run whose probes could not be loaded or attached does not.
ExitCodeOfOtherPaths ==
    pc = "stopped"
        => /\ path \in {"duration", "shutdown"} => ret = EXIT_SUCCESS
           /\ path \in {"load_failure", "attach_failure"} => ret = EXIT_BPF_ERROR

\* A run whose main loop was left on a poll error has returned success.
PollErrorReturnsSuccess ==
    /\ pc = "stopped"
    /\ path = "poll_error"
    /\ ret = EXIT_SUCCESS

(***************************************************************************)
(* Claims about the profile command (checked under SpecProfile)            *)
(***************************************************************************)

\* The run got as far as the profiling loop.
ProfilingRan == prof.path \notin {"none", "load_failure", "attach_failure"}

\* The profile documents in the sink.
ProfileDocuments == Len(SelectSeq(sink, LAMBDA d : d = <<"profile">>))

\* C27: the profile command returns EXIT_SUCCESS only if a profile was
\* finalized and its document written to the sink; when no profile could be
\* finalized it returns another exit code.
C27_SuccessOnlyWithDocument ==
    (prof.pc = "stopped" /\ prof.ret = EXIT_SUCCESS)
        => (prof.profile = "built" /\ ProfileDocuments = 1)

\* What the code does: every run that reaches the profiling loop returns
\* EXIT_SUCCESS, the others EXIT_BPF_ERROR.
ProfileExitCode ==
    prof.pc = "stopped"
        => prof.ret = IF ProfilingRan THEN EXIT_SUCCESS ELSE EXIT_BPF_ERROR

\* A run in which no profile could be finalized has returned EXIT_SUCCESS.
SuccessWithoutProfile ==
    /\ prof.pc = "stopped"
    /\ prof.profile = "null"
    /\ ProfileDocuments = 0
    /\ prof.ret = EXIT_SUCCESS

\* C21 as stated: a profiling run ends at the first of duration elapsed,
\* target gone, shutdown requested, and whichever ends it, exactly one
\* profile document is emitted on termination.
C21_EndsOnThreeConditionsWithOneDocument ==
    /\ (ProfilingRan /\ prof.pc # "loop_test" /\ prof.pc # "loop_poll")
         => prof.path \in {"duration", "exited", "shutdown"}
    /\ (ProfilingRan /\ prof.pc = "stopped") => ProfileDocuments = 1

\* C21, amended: the profiling loop goes on only while the poll has not
\* failed, the target is present, the duration has not elapsed and no
\* shutdown is requested; it is left at the first of these (the poll's
\* failure included), for the reason recorded; and whichever ends it, the
\* one call of finalize follows, whose profile, if it returned one, is the
\* one document written: never more than one, none if it returned none.
C21_ProfilingEnds ==
    [][/\ (prof.pc = "loop_poll" /\ prof'.pc = "loop_test")
            => /\ ~PollFailed(prof'.ret)
               /\ prof.alive
               /\ prof'.now - prof.start_time < prof.duration
       /\ (prof.pc = "loop_test" /\ prof'.pc = "loop_poll") => ~prof.shutdown
       /\ (prof.pc \in {"loop_test", "loop_poll"} /\ prof'.pc = "drain_test")
            => \/ prof'.path = "shutdown" /\ prof.shutdown /\ prof.pc = "loop_test"
               \/ prof'.path = "poll_error" /\ PollFailed(prof'.ret)
               \/ prof'.path = "exited" /\ ~prof.alive /\ ~PollFailed(prof'.ret)
               \/ /\ prof'.path = "duration"
                  /\ prof'.now - prof.start_time >= prof.duration
                  /\ prof.alive
                  /\ ~PollFailed(prof'.ret)
       /\ prof.pc # "finalize" => sink' = sink
       /\ (prof.pc = "finalize" /\ prof'.pc = "cleanup")
            => /\ sink = << >>
               /\ ProfileDocuments' = IF prof'.profile = "built" THEN 1 ELSE 0
               /\ Len(sink') = ProfileDocuments'
      ]_vars

\* The target left the process filesystem before its duration elapsed; the
\* run ended for that and wrote its one document.
C21_Witness ==
    /\ prof.pc = "stopped"
    /\ prof.path = "exited"
    /\ prof.process_exited
    /\ prof.now - prof.start_time < prof.duration
    /\ prof.profile = "built"
    /\ ProfileDocuments = 1

(***************************************************************************)
(* Claims about extract_library_name (checked under SpecLibName)           *)
(***************************************************************************)

\* name is the final segment of the path p cut at its first dot: p is some
\* directories ending in "/" (or nothing), then name, then nothing or a dot
\* and what follows it, with no "/" after the directories and no dot in name.
IsLibraryNameOf(name, p) ==
    \E i \in 0 .. Len(p), k \in 0 .. Len(p) :
        /\ i <= k
        /\ name = SubSeq(p, i + 1, k)
        /\ i = 0 \/ p[i] = "/"
        /\ \A j \in i + 1 .. Len(p) : p[j] # "/"
        /\ \A j \in i + 1 .. k : p[j] # ".so"
        /\ k = Len(p) \/ p[k + 1] = ".so"

\* C25 as stated: the name is the final segment cut at its first dot, a bare
\* name is preserved, and on empty input (no string, or the empty string)
\* the result is none.
C25_NoneOnEmptyInput ==
    (calc.op = "named" /\ calc.allocated)
        => IF calc.library_path = << >> \/ calc.library_path = << << >> >>
           THEN calc.library_name = << >>
           ELSE /\ calc.library_name # << >>
                /\ IsLibraryNameOf(calc.library_name[1], calc.library_path[1])

\* C25, amended: without an argument (NULL), or without memory for the
\* name, the result is none; for every string, the empty one included, it is
\* the final segment cut at its first dot, so a bare name without "/" and
\* dot is returned whole and the empty string gives the empty name.
C25_LibraryName ==
    calc.op = "named"
        => IF calc.library_path = << >> \/ ~calc.allocated
           THEN calc.library_name = << >>
           ELSE /\ calc.library_name # << >>
                /\ IsLibraryNameOf(calc.library_name[1], calc.library_path[1])
                /\ (\A j \in 1 .. Len(calc.library_path[1]) :
                        calc.library_path[1][j] \notin {"/", ".so"})
                     => calc.library_name[1] = calc.library_path[1]
                /\ calc.library_path[1] = << >> => calc.library_name[1] = << >>

\* /libssl.so.so has given libssl.
C25_Witness ==
    /\ calc.op = "named"
    /\ calc.library_path = << <<"/", "lib", "ssl", ".so", ".so">> >>
    /\ calc.library_name = << <<"lib", "ssl">> >>

\* The empty string has given the empty name, not none.
EmptyPathGivesEmptyName ==
    /\ calc.op = "named"
    /\ calc.library_path = << << >> >>
    /\ calc.library_name = << << >> >>

(***************************************************************************)
(* Claims about the timestamps (checked under SpecTimestamp)               *)
(***************************************************************************)

Digits == {"0", "1", "2", "3", "4", "5", "6", "7", "8", "9"}

\* YYYY-MM-DDTHH:MM:SS.ffffffZ
IsIso8601Micro(s) ==
    /\ Len(s) = 27
    /\ \A i \in 1 .. 27 :
         s[i] \in CASE i \in {5, 8} -> {"-"}
                    [] i = 11 -> {"T"}
                    [] i \in {14, 17} -> {":"}
                    [] i = 20 -> {"."}
                    [] i = 27 -> {"Z"}
                    [] OTHER -> Digits

\* YYYY-MM-DDTHH:MM:SSZ
IsIso8601Seconds(s) ==
    /\ Len(s) = 20
    /\ \A i \in 1 .. 20 :
         s[i] \in CASE i \in {5, 8} -> {"-"}
                    [] i = 11 -> {"T"}
                    [] i \in {14, 17} -> {":"}
                    [] i = 20 -> {"Z"}
                    [] OTHER -> Digits

\* C24: every timestamp written to the sink, of an event or of a snapshot,
\* has the form YYYY-MM-DDTHH:MM:SS.ffffffZ with exactly six sub-second
\* digits.
C24_TimestampsHaveMicroseconds ==
    \A i \in 1 .. Len(sink) : IsIso8601Micro(sink[i])

\* What the code does: the timestamp of an event has the six digits, the
\* generated_at of a snapshot has whole seconds only, or is "unknown".
TimestampForms ==
    /\ calc.op = "event" => \A i \in 1 .. Len(sink) : IsIso8601Micro(sink[i])
    /\ calc.op = "snapshot"
         => \A i \in 1 .. Len(sink) :
              \/ IsIso8601Seconds(sink[i])
              \/ sink[i] = <<"u", "n", "k", "n", "o", "w", "n">>

\* The snapshot taken in the first second of 2021 is stamped
\* 2021-01-01T00:00:00Z.
SnapshotStampedWithoutMicroseconds ==
    /\ calc.op = "snapshot"
    /\ sink = << <<"2", "0", "2", "1", "-", "0", "1", "-", "0", "1", "T",
                   "0", "0", ":", "0", "0", ":", "0", "0", "Z">> >>

(***************************************************************************)
(* More claims about the snapshot command (checked under SpecSnapshot)     *)
(***************************************************************************)

RECURSIVE SumOfLibraries(_)
SumOfLibraries(entries) ==
    IF entries = << >> THEN 0
    ELSE Head(entries).libraries + SumOfLibraries(Tail(entries))

RECURSIVE SumOfFiles(_)
SumOfFiles(entries) ==
    IF entries = << >> THEN 0
    ELSE Head(entries).open_crypto_files + SumOfFiles(Tail(entries))

\* C22: in every snapshot written, one cut short by the time budget
\* included, total_processes is the number of process entries emitted,
\* total_libraries the sum of their library counts and total_files the sum of
\* their open-file counts.
C22_SummaryIsTheSumOfTheEntries ==
    \A d \in 1 .. Len(sink) :
        /\ sink[d].summary.total_processes = Len(sink[d].processes)
        /\ sink[d].summary.total_libraries = SumOfLibraries(sink[d].processes)
        /\ sink[d].summary.total_files = SumOfFiles(sink[d].processes)

\* A snapshot cut short by the time budget has been written: a process of
\* the list was not scanned, one that was scanned had nothing and is not in
\* the document, another is in it with a library and a file.
C22_Witness ==
    /\ snap.pc = "stopped"
    /\ Len(sink) = 1
    /\ snap.i < snap.count
    /\ snap.i > Len(sink[1].processes)
    /\ sink[1].summary.total_processes = 1
    /\ sink[1].summary.total_libraries = 1
    /\ sink[1].summary.total_files = 1

\* C23: once the five seconds are exceeded no further process is scanned,
\* and the snapshot command returns within five seconds of its start.
C23_ReturnsWithinBudget ==
    /\ snap.pc = "stopped" => now - snap.start_time <= SNAPSHOT_TIMEOUT
    /\ (snap.pc = "scan" /\ now - snap.start_time > SNAPSHOT_TIMEOUT)
         => ~ENABLED SnapshotScanPid

\* What the code does: no process is scanned once the five seconds are used
\* up, and the command overruns them by less than the scan of one process.
BudgetTestedBetweenProcesses ==
    /\ (snap.pc = "scan" /\ SnapshotTimedOut(now, snap.start_time))
         => ~ENABLED SnapshotScanPid
    /\ snap.pc # "idle"
         => now - snap.start_time < SNAPSHOT_TIMEOUT + MaxScanSeconds

\* The command has returned seven seconds after its start: the scan of the
\* second process began in the fifth second and took three.
ReturnedAfterBudget ==
    /\ snap.pc = "stopped"
    /\ snap.i = 2
    /\ now - snap.start_time > SNAPSHOT_TIMEOUT

=============================================================================
